---------------------------- MODULE Spec2Model ----------------------------
(***************************************************************************)
(* Model of the Inkwell permission system: the AccessControl engine that   *)
(* runs inside every blog process (lua-process/access_control.lua), the    *)
(* blog registry process (lua-process/blog_registry.lua), the blog         *)
(* contract's registry sync and posts (src/core/browser-deploy.ts,         *)
(* BLOG_CONTRACT), and the SDK's client side: retryWithDelay               *)
(* (src/utils/utils.ts), the write methods (src/core/blog-sdk.ts) and      *)
(* deployBlogInBrowser (src/core/browser-deploy.ts).                       *)
(***************************************************************************)
EXTENDS Integers, Sequences, FiniteSets, TLC

VARIABLES
    \* AccessControl engine (module-level locals of access_control.lua)
    is_initialized, roles, role_members, role_admins, is_log_enabled, events,
    \* the engine call or blog handler run last and what it returned
    ret,
    \* registry process state (module-level locals of blog_registry.lua)
    wallet_blogs, blog_wallets,
    \* messages the blog process has handed to ao.send for the registry
    outbox,
    \* indices into outbox of the messages the registry has handled, in order
    delivered,
    \* the reading of os.time()
    now,
    \* the blog contract's post storage (BLOG_CONTRACT: Posts, Next_id)
    Posts, Next_id,
    \* the SDK call in progress on the client side: its position and locals
    client

acVars  == <<is_initialized, roles, role_members, role_admins, is_log_enabled, events>>
regVars == <<wallet_blogs, blog_wallets>>
postVars == <<Posts, Next_id>>
vars    == <<is_initialized, roles, role_members, role_admins, is_log_enabled, events,
             ret, wallet_blogs, blog_wallets, outbox, delivered, now,
             Posts, Next_id, client>>

-----------------------------------------------------------------------------
(* Bounds of the model *)

\* longest event log the engine model lets grow
MaxEvents == 2
\* longest account list handed to bulk_grant_role
MaxBulk == 2

-----------------------------------------------------------------------------
(* Values *)

\* Lua's nil (an omitted argument, an absent error)
Nil == "<nil>"

DEFAULT_ADMIN == "DEFAULT_ADMIN_ROLE"
EDITOR == "EDITOR_ROLE"

NOT_INITIALIZED == "AccessControl not initialized"
INVALID_ACCOUNT == "Invalid account"
INVALID_ROLE == "Invalid role"
ROLE_EXISTS == "Role already exists"
ROLE_NOT_EXISTS == "Role does not exist"
ACCOUNT_HAS_ROLE == "Account already has role"
ACCOUNT_NO_ROLE == "Account does not have role"
MISSING_ROLE == "AccessControl: account %s is missing role %s"
NOT_ADMIN == "AccessControl: account %s is not admin of role %s"
CANNOT_REMOVE_LAST_ADMIN == "Cannot remove last DEFAULT_ADMIN"
ALREADY_INITIALIZED == "Already initialized"
ADMIN_PREFIX == "Admin "
ACCOUNTS_NOT_TABLE == "Accounts must be a table"
INDEX_IS_NIL == "table index is nil"

\* accounts the callers of the engine use; "" is the invalid empty account
Accounts == {"A", "B"}
AccountArgs == Accounts \cup {""}
\* role names the callers use; "" is the empty role name
RoleArgs == {DEFAULT_ADMIN, EDITOR, ""}

\* table[key] = value
Put(f, k, v) == [x \in (DOMAIN f) \cup {k} |-> IF x = k THEN v ELSE f[x]]

\* sequences over S of length 0..n
RECURSIVE SeqsUpTo(_, _)
SeqsUpTo(S, n) ==
    IF n = 0 THEN {<<>>}
    ELSE LET shorter == SeqsUpTo(S, n - 1)
         IN  shorter \cup {Append(s, x) : s \in {t \in shorter : Len(t) = n - 1}, x \in S}

-----------------------------------------------------------------------------
(* The engine, as functions of its store S *)

Store == [is_initialized |-> is_initialized, roles |-> roles,
          role_members |-> role_members, role_admins |-> role_admins,
          is_log_enabled |-> is_log_enabled, events |-> events, now |-> now]

Ok == [ok |-> TRUE, err |-> Nil]
Fail(e) == [ok |-> FALSE, err |-> e]
\* (value, error) pairs of the read queries
Val(v, e) == [val |-> v, err |-> e]
\* what a mutating call returns, with the store it leaves
Res(S, r) == [S |-> S, ok |-> r.ok, err |-> r.err]

log_role_update(S, caller, message, role, old_admin_role, new_admin_role) ==
    IF S.is_log_enabled
    THEN [S EXCEPT !.events = Append(@,
            [type |-> message, role |-> role, account |-> Nil,
             oldAdminRole |-> old_admin_role, newAdminRole |-> new_admin_role,
             caller |-> caller, timestamp |-> S.now])]
    ELSE S

log_role_account(S, caller, message, role, account) ==
    IF S.is_log_enabled
    THEN [S EXCEPT !.events = Append(@,
            [type |-> message, role |-> role, account |-> account,
             oldAdminRole |-> Nil, newAdminRole |-> Nil,
             caller |-> caller, timestamp |-> S.now])]
    ELSE S

check_initialized(S) ==
    IF ~S.is_initialized THEN Fail(NOT_INITIALIZED) ELSE Ok

role_exists(S, role) == role \in S.roles

validate_account(account) ==
    IF account = Nil \/ account = "" THEN Fail(INVALID_ACCOUNT) ELSE Ok

validate_role(S, role) ==
    IF role = Nil \/ role = "" THEN Fail(INVALID_ROLE)
    ELSE IF ~role_exists(S, role) THEN Fail(ROLE_NOT_EXISTS)
    ELSE Ok

validate_inputs(S, account, role) ==
    IF ~check_initialized(S).ok THEN check_initialized(S)
    ELSE IF ~validate_account(account).ok THEN validate_account(account)
    ELSE IF ~validate_role(S, role).ok THEN validate_role(S, role)
    ELSE Ok

has_role(S, account, role) ==
    IF ~validate_inputs(S, account, role).ok
    THEN Val(FALSE, validate_inputs(S, account, role).err)
    ELSE Val(account \in S.role_members[role], Nil)

get_role_admin(S, role) ==
    IF ~check_initialized(S).ok THEN Val(Nil, check_initialized(S).err)
    ELSE IF ~validate_role(S, role).ok THEN Val(Nil, validate_role(S, role).err)
    ELSE Val(S.role_admins[role], Nil)

\* administration resolved by walking one more level up the admin chain
can_administer_role_walk(S, caller, role) ==
    LET ga == get_role_admin(S, role)
    IN  IF ga.err # Nil THEN Fail(ga.err)
        ELSE [ok  |-> has_role(S, caller, ga.val).val
                      \/ has_role(S, caller, get_role_admin(S, ga.val).val).val
                      \/ has_role(S, caller, DEFAULT_ADMIN).val,
              err |-> NOT_ADMIN]

can_administer_role(S, caller, role) ==
    LET ga == get_role_admin(S, role)
    IN  IF ga.err # Nil THEN Fail(ga.err)
        ELSE [ok  |-> has_role(S, caller, ga.val).val
                      \/ has_role(S, caller, DEFAULT_ADMIN).val,
              err |-> NOT_ADMIN]

\* roles is keyed by role name, so the ipairs walk over it visits nothing
get_user_roles(S, account) ==
    IF ~check_initialized(S).ok THEN Val(Nil, check_initialized(S).err)
    ELSE Val(<<>>, Nil)

get_all_roles(S) ==
    IF ~check_initialized(S).ok THEN Val(Nil, check_initialized(S).err)
    ELSE Val(<<>>, Nil)

get_role_members(S, role) ==
    IF ~check_initialized(S).ok THEN Val(Nil, check_initialized(S).err)
    ELSE IF ~validate_role(S, role).ok THEN Val(Nil, validate_role(S, role).err)
    ELSE Val(S.role_members[role], Nil)

get_role_member_count(S, role) ==
    IF ~check_initialized(S).ok THEN Val(0, check_initialized(S).err)
    ELSE IF ~validate_role(S, role).ok THEN Val(0, validate_role(S, role).err)
    ELSE Val(Cardinality(S.role_members[role]), Nil)

\* the initialization that does not look at is_initialized
init_again(S, caller, owner, is_log_disabled) ==
    IF ~validate_account(caller).ok THEN Res(S, validate_account(caller))
    ELSE IF ~validate_account(owner).ok THEN Res(S, validate_account(owner))
    ELSE LET S1 == [S EXCEPT
                      !.roles = @ \cup {DEFAULT_ADMIN},
                      !.role_members = Put(@, DEFAULT_ADMIN, {owner}),
                      !.role_admins = Put(@, DEFAULT_ADMIN, DEFAULT_ADMIN),
                      !.is_initialized = TRUE,
                      !.is_log_enabled = IF is_log_disabled THEN FALSE ELSE @]
             S2 == log_role_update(S1, caller, "RoleCreated", DEFAULT_ADMIN, Nil, DEFAULT_ADMIN)
             S3 == log_role_account(S2, caller, "RoleGranted", DEFAULT_ADMIN, owner)
         IN  Res(S3, Ok)

init(S, caller, owner, is_log_disabled) ==
    IF S.is_initialized THEN Res(S, Fail(ALREADY_INITIALIZED))
    ELSE IF ~validate_account(caller).ok THEN Res(S, validate_account(caller))
    ELSE IF ~validate_account(owner).ok THEN Res(S, validate_account(owner))
    ELSE LET S1 == [S EXCEPT
                      !.roles = @ \cup {DEFAULT_ADMIN},
                      !.role_members = Put(@, DEFAULT_ADMIN, {owner}),
                      !.role_admins = Put(@, DEFAULT_ADMIN, DEFAULT_ADMIN),
                      !.is_initialized = TRUE,
                      !.is_log_enabled = IF is_log_disabled THEN FALSE ELSE @]
             S2 == log_role_update(S1, caller, "RoleCreated", DEFAULT_ADMIN, Nil, DEFAULT_ADMIN)
             S3 == log_role_account(S2, caller, "RoleGranted", DEFAULT_ADMIN, owner)
         IN  Res(S3, Ok)

\* the creation that does not look for an existing role of that name
create_role_overwrite(S, caller, role, admin_role_arg) ==
    LET admin_role == IF admin_role_arg = Nil THEN DEFAULT_ADMIN ELSE admin_role_arg
    IN  IF ~validate_inputs(S, caller, admin_role).ok
        THEN Res(S, validate_inputs(S, caller, admin_role))
        ELSE IF ~can_administer_role(S, caller, admin_role).ok
        THEN Res(S, Fail(can_administer_role(S, caller, admin_role).err))
        ELSE IF role = Nil THEN Res(S, Fail(INDEX_IS_NIL))
        ELSE LET S1 == [S EXCEPT
                          !.roles = @ \cup {role},
                          !.role_members = Put(@, role, {}),
                          !.role_admins = Put(@, role, admin_role)]
             IN  Res(log_role_update(S1, caller, "RoleCreated", role, Nil, admin_role), Ok)

create_role(S, caller, role, admin_role_arg) ==
    LET admin_role == IF admin_role_arg = Nil THEN DEFAULT_ADMIN ELSE admin_role_arg
    IN  IF ~validate_inputs(S, caller, admin_role).ok
        THEN Res(S, validate_inputs(S, caller, admin_role))
        ELSE IF role_exists(S, role) THEN Res(S, Fail(ROLE_EXISTS))
        ELSE IF ~can_administer_role(S, caller, admin_role).ok
        THEN Res(S, Fail(can_administer_role(S, caller, admin_role).err))
        \* roles[nil] = true raises before anything is stored
        ELSE IF role = Nil THEN Res(S, Fail(INDEX_IS_NIL))
        ELSE LET S1 == [S EXCEPT
                          !.roles = @ \cup {role},
                          !.role_members = Put(@, role, {}),
                          !.role_admins = Put(@, role, admin_role)]
             IN  Res(log_role_update(S1, caller, "RoleCreated", role, Nil, admin_role), Ok)

\* the grant that also writes down the grants it turns down as repeated
grant_role_logs_refusal(S, caller, role, account) ==
    IF ~validate_account(caller).ok THEN Res(S, validate_account(caller))
    ELSE IF ~validate_inputs(S, account, role).ok
    THEN Res(S, validate_inputs(S, account, role))
    ELSE IF ~can_administer_role(S, caller, role).ok
    THEN Res(S, Fail(can_administer_role(S, caller, role).err))
    ELSE IF has_role(S, account, role).val
    THEN Res(log_role_account(S, caller, "RoleGranted", role, account), Fail(ACCOUNT_HAS_ROLE))
    ELSE LET S1 == [S EXCEPT !.role_members[role] = @ \cup {account}]
         IN  Res(log_role_account(S1, caller, "RoleGranted", role, account), Ok)

grant_role(S, caller, role, account) ==
    IF ~validate_account(caller).ok THEN Res(S, validate_account(caller))
    ELSE IF ~validate_inputs(S, account, role).ok
    THEN Res(S, validate_inputs(S, account, role))
    ELSE IF ~can_administer_role(S, caller, role).ok
    THEN Res(S, Fail(can_administer_role(S, caller, role).err))
    ELSE IF has_role(S, account, role).val THEN Res(S, Fail(ACCOUNT_HAS_ROLE))
    ELSE LET S1 == [S EXCEPT !.role_members[role] = @ \cup {account}]
         IN  Res(log_role_account(S1, caller, "RoleGranted", role, account), Ok)

\* the guard without its protection of the last holder
would_remove_last_admin_never(S, role, account) == FALSE

\* the guard with the count compared against zero
would_remove_last_admin_zero(S, role, account) ==
    IF role # DEFAULT_ADMIN THEN FALSE
    ELSE get_role_member_count(S, role).val = 0 /\ account \in S.role_members[role]

would_remove_last_admin(S, role, account) ==
    IF role # DEFAULT_ADMIN THEN FALSE
    ELSE get_role_member_count(S, role).val = 1 /\ account \in S.role_members[role]

\* the revoke that takes the membership away before it looks at the guard
revoke_role_eager(S, caller, role, account) ==
    IF ~validate_inputs(S, account, role).ok
    THEN Res(S, validate_inputs(S, account, role))
    ELSE IF ~can_administer_role(S, caller, role).ok
    THEN Res(S, Fail(can_administer_role(S, caller, role).err))
    ELSE IF ~has_role(S, account, role).val THEN Res(S, Fail(ACCOUNT_NO_ROLE))
    ELSE LET S1 == [S EXCEPT !.role_members[role] = @ \ {account}]
         IN  IF role = DEFAULT_ADMIN /\ S1.role_members[role] = {}
             THEN Res(S1, Fail(CANNOT_REMOVE_LAST_ADMIN))
             ELSE Res(log_role_account(S1, caller, "RoleRevoked", role, account), Ok)

revoke_role(S, caller, role, account) ==
    IF ~validate_inputs(S, account, role).ok
    THEN Res(S, validate_inputs(S, account, role))
    ELSE IF ~can_administer_role(S, caller, role).ok
    THEN Res(S, Fail(can_administer_role(S, caller, role).err))
    ELSE IF ~has_role(S, account, role).val THEN Res(S, Fail(ACCOUNT_NO_ROLE))
    ELSE IF would_remove_last_admin(S, role, account)
    THEN Res(S, Fail(CANNOT_REMOVE_LAST_ADMIN))
    ELSE LET S1 == [S EXCEPT !.role_members[role] = @ \ {account}]
         IN  Res(log_role_account(S1, caller, "RoleRevoked", role, account), Ok)

renounce_role(S, caller, role) ==
    IF ~validate_inputs(S, caller, role).ok
    THEN Res(S, validate_inputs(S, caller, role))
    ELSE IF ~has_role(S, caller, role).val THEN Res(S, Fail(ACCOUNT_NO_ROLE))
    ELSE IF would_remove_last_admin(S, role, caller)
    THEN Res(S, Fail(CANNOT_REMOVE_LAST_ADMIN))
    ELSE LET S1 == [S EXCEPT !.role_members[role] = @ \ {caller}]
         IN  Res(log_role_account(S1, caller, "RoleRenounced", role, caller), Ok)

\* the rebinding that never asks who the caller is
set_role_admin_unchecked(S, caller, role, admin_role) ==
    IF ~validate_role(S, role).ok THEN Res(S, validate_role(S, role))
    ELSE IF ~validate_role(S, admin_role).ok
    THEN Res(S, Fail(ADMIN_PREFIX \o validate_role(S, admin_role).err))
    ELSE LET old_admin_role == S.role_admins[role]
             S1 == [S EXCEPT !.role_admins[role] = admin_role]
         IN  Res(log_role_update(S1, caller, "RoleAdminChanged", role, old_admin_role, admin_role), Ok)

\* the rebinding that takes any admin role it is given
set_role_admin_unvalidated(S, caller, role, admin_role) ==
    IF ~can_administer_role(S, caller, role).ok
    THEN Res(S, Fail(can_administer_role(S, caller, role).err))
    ELSE LET old_admin_role == S.role_admins[role]
             S1 == [S EXCEPT !.role_admins[role] = admin_role]
         IN  Res(log_role_update(S1, caller, "RoleAdminChanged", role, old_admin_role, admin_role), Ok)

set_role_admin(S, caller, role, admin_role) ==
    IF ~can_administer_role(S, caller, role).ok
    THEN Res(S, Fail(can_administer_role(S, caller, role).err))
    ELSE IF ~validate_role(S, admin_role).ok
    THEN Res(S, Fail(ADMIN_PREFIX \o validate_role(S, admin_role).err))
    ELSE LET old_admin_role == S.role_admins[role]
             S1 == [S EXCEPT !.role_admins[role] = admin_role]
         IN  Res(log_role_update(S1, caller, "RoleAdminChanged", role, old_admin_role, admin_role), Ok)

only_role(S, caller, role) ==
    IF ~has_role(S, caller, role).val
    THEN Fail(IF has_role(S, caller, role).err # Nil
              THEN has_role(S, caller, role).err ELSE MISSING_ROLE)
    ELSE Ok

clear_events(S) ==
    IF ~check_initialized(S).ok THEN Res(S, check_initialized(S))
    ELSE Res([S EXCEPT !.events = <<>>], Ok)

\* the loop of bulk_grant_role: the store after the grants and the per-account results
RECURSIVE bulk_grant_loop(_, _, _, _, _)
bulk_grant_loop(S, caller, role, accounts, results) ==
    IF accounts = <<>> THEN [S |-> S, results |-> results]
    ELSE LET g == grant_role(S, caller, role, Head(accounts))
         IN  bulk_grant_loop(g.S, caller, role, Tail(accounts),
                 Append(results, [account |-> Head(accounts), success |-> g.ok, error |-> g.err]))

\* the batch that keeps its grants only when every one of them succeeded
bulk_grant_role_atomic(S, caller, role, accounts) ==
    IF ~check_initialized(S).ok
    THEN [S |-> S, ok |-> FALSE, err |-> check_initialized(S).err, results |-> <<>>]
    ELSE LET l == bulk_grant_loop(S, caller, role, accounts, <<>>)
             all_granted == \A k \in DOMAIN l.results : l.results[k].success
         IN  [S |-> IF all_granted THEN l.S ELSE S, ok |-> TRUE, err |-> Nil, results |-> l.results]

bulk_grant_role(S, caller, role, accounts) ==
    IF ~check_initialized(S).ok
    THEN [S |-> S, ok |-> FALSE, err |-> check_initialized(S).err, results |-> <<>>]
    ELSE LET l == bulk_grant_loop(S, caller, role, accounts, <<>>)
         IN  [S |-> l.S, ok |-> TRUE, err |-> Nil, results |-> l.results]

-----------------------------------------------------------------------------
(* The engine driven by arbitrary callers *)

\* the call made last and the (success, error) it returned
Reply(name, r) == [op |-> name, ok |-> r.ok, err |-> r.err]

\* the engine's store becomes S
SetStoreOf(S) ==
    /\ is_initialized' = S.is_initialized
    /\ roles' = S.roles
    /\ role_members' = S.role_members
    /\ role_admins' = S.role_admins
    /\ is_log_enabled' = S.is_log_enabled
    /\ events' = S.events

\* the engine's store is S
SetStoreIs(S) ==
    /\ is_initialized = S.is_initialized
    /\ roles = S.roles
    /\ role_members = S.role_members
    /\ role_admins = S.role_admins
    /\ is_log_enabled = S.is_log_enabled
    /\ events = S.events

\* the engine's store becomes S; the log may not outgrow the model
SetStore(S) ==
    /\ Len(S.events) <= MaxEvents
    /\ SetStoreOf(S)

Initialize(caller, owner, is_log_disabled) ==
    LET r == init(Store, caller, owner, is_log_disabled)
    IN  /\ SetStore(r.S)
        /\ ret' = Reply("init", r)
        /\ UNCHANGED <<regVars, outbox, delivered, now, postVars, client>>

CreateRole(caller, role, admin_role) ==
    LET r == create_role(Store, caller, role, admin_role)
    IN  /\ SetStore(r.S)
        /\ ret' = Reply("create_role", r)
        /\ UNCHANGED <<regVars, outbox, delivered, now, postVars, client>>

GrantRole(caller, role, account) ==
    LET r == grant_role(Store, caller, role, account)
    IN  /\ SetStore(r.S)
        /\ ret' = Reply("grant_role", r)
        /\ UNCHANGED <<regVars, outbox, delivered, now, postVars, client>>

BulkGrantRole(caller, role, accounts) ==
    LET r == bulk_grant_role(Store, caller, role, accounts)
    IN  /\ SetStore(r.S)
        /\ ret' = Reply("bulk_grant_role", r)
        /\ UNCHANGED <<regVars, outbox, delivered, now, postVars, client>>

RevokeRole(caller, role, account) ==
    LET r == revoke_role(Store, caller, role, account)
    IN  /\ SetStore(r.S)
        /\ ret' = Reply("revoke_role", r)
        /\ UNCHANGED <<regVars, outbox, delivered, now, postVars, client>>

RenounceRole(caller, role) ==
    LET r == renounce_role(Store, caller, role)
    IN  /\ SetStore(r.S)
        /\ ret' = Reply("renounce_role", r)
        /\ UNCHANGED <<regVars, outbox, delivered, now, postVars, client>>

SetRoleAdmin(caller, role, admin_role) ==
    LET r == set_role_admin(Store, caller, role, admin_role)
    IN  /\ SetStore(r.S)
        /\ ret' = Reply("set_role_admin", r)
        /\ UNCHANGED <<regVars, outbox, delivered, now, postVars, client>>

\* the state of a freshly loaded access_control.lua
InitEngine ==
    /\ is_initialized = FALSE
    /\ roles = {}
    /\ role_members = <<>>
    /\ role_admins = <<>>
    /\ is_log_enabled = TRUE
    /\ events = <<>>
    /\ ret = Reply("load", Ok)

InitRegistry ==
    /\ wallet_blogs = <<>>
    /\ blog_wallets = <<>>

\* Posts = Posts or {}; Next_id = Next_id or 1
InitPosts ==
    /\ Posts = <<>>
    /\ Next_id = 1

\* no SDK call in progress
InitClient == client = [pc |-> "idle"]

Init ==
    /\ InitEngine
    /\ InitRegistry
    /\ outbox = <<>>
    /\ delivered = <<>>
    /\ now = 0
    /\ InitPosts
    /\ InitClient

Next ==
    \/ \E c \in AccountArgs, o \in AccountArgs, d \in BOOLEAN : Initialize(c, o, d)
    \/ \E c \in AccountArgs, r \in RoleArgs \cup {Nil}, a \in RoleArgs \cup {Nil} : CreateRole(c, r, a)
    \/ \E c \in AccountArgs, r \in RoleArgs, a \in AccountArgs : GrantRole(c, r, a)
    \/ \E c \in AccountArgs, r \in RoleArgs, l \in SeqsUpTo(AccountArgs, MaxBulk) : BulkGrantRole(c, r, l)
    \/ \E c \in AccountArgs, r \in RoleArgs, a \in AccountArgs : RevokeRole(c, r, a)
    \/ \E c \in AccountArgs, r \in RoleArgs : RenounceRole(c, r)
    \/ \E c \in AccountArgs, r \in RoleArgs, a \in RoleArgs : SetRoleAdmin(c, r, a)

Spec == Init /\ [][Next]_vars

\* bulk_grant_role with its second return value, the per-account results, kept
BulkGrantRoleResults(caller, role, accounts) ==
    LET r == bulk_grant_role(Store, caller, role, accounts)
    IN  /\ SetStore(r.S)
        /\ ret' = [op |-> "bulk_grant_role", ok |-> r.ok, err |-> r.err, results |-> r.results]
        /\ UNCHANGED <<regVars, outbox, delivered, now, postVars, client>>

\* the engine set up, given roles under the default admin and then driven by
\* batches of grants that report their results
NextBulk ==
    \/ \E c \in AccountArgs, o \in AccountArgs, d \in BOOLEAN : Initialize(c, o, d)
    \/ \E c \in AccountArgs, r \in RoleArgs : CreateRole(c, r, Nil)
    \/ \E c \in Accounts, r \in RoleArgs, l \in SeqsUpTo(AccountArgs, MaxBulk) : BulkGrantRoleResults(c, r, l)

SpecBulk == Init /\ [][NextBulk]_vars

ClearEvents ==
    LET r == clear_events(Store)
    IN  /\ SetStore(r.S)
        /\ ret' = Reply("clear_events", r)
        /\ UNCHANGED <<regVars, outbox, delivered, now, postVars, client>>

\* the engine initialized by its owner with the log on, the editor role
\* declared and handed around, and the log cleared now and then
NextLog ==
    \/ \E o \in Accounts : Initialize(o, o, FALSE)
    \/ \E c \in Accounts : CreateRole(c, EDITOR, Nil)
    \/ \E c \in Accounts, a \in Accounts : GrantRole(c, EDITOR, a)
    \/ \E c \in Accounts, a \in Accounts : RevokeRole(c, EDITOR, a)
    \/ \E c \in Accounts : RenounceRole(c, EDITOR)
    \/ \E c \in Accounts, a \in {DEFAULT_ADMIN, EDITOR} : SetRoleAdmin(c, EDITOR, a)
    \/ ClearEvents

SpecLog == Init /\ [][NextLog]_vars


-----------------------------------------------------------------------------
(* The registry process, as functions of its store G *)

\* last reading of os.time() the model lets the clock reach
MaxTime == 1

REGISTRY_VERSION == "1.0.0"
VALID_ROLES == <<"DEFAULT_ADMIN_ROLE", "EDITOR_ROLE">>

INVALID_WALLET == "Invalid wallet address"
INVALID_BLOG_ID == "Invalid blog ID"
INVALID_ROLE_PREFIX == "Invalid role: "
ROLES_NOT_TABLE == "Roles must be a table"
INVALID_JSON == "Invalid JSON data"
MISSING_WALLET_ROLES == "Missing required fields: wallet, roles"
MISSING_WALLET == "Missing required fields: wallet"
MISSING_TAGS == "Missing required tags: Wallet-Address, Blog-ID, Role"

\* wallets and blog process ids the registry hears of; "" is the empty string
Wallets == {"w1", "w2"}
Blogs == {"blog1", "blog2"}
\* roles lists found in payloads: empty, valid ones, and ones the registry
\* rejects at the first or at a later element
RoleLists == {<<>>, <<"EDITOR_ROLE">>, <<"DEFAULT_ADMIN_ROLE", "EDITOR_ROLE">>,
              <<"VIEWER_ROLE">>, <<"EDITOR_ROLE", "VIEWER_ROLE">>}
\* decoded msg.Data of Register-Wallet-Permissions and Update-Wallet-Roles:
\* a field may be missing, and a blog_id field may be present
WritePayloads ==
    LET ws == Wallets \cup {""}
    IN  {<<>>}
        \cup {[wallet |-> w] : w \in ws}
        \cup {[roles |-> r] : r \in RoleLists}
        \cup {[wallet |-> w, roles |-> r] : w \in ws, r \in RoleLists}
        \cup {[wallet |-> w, roles |-> r, blog_id |-> "blog2"] : w \in ws, r \in RoleLists}
\* decoded msg.Data of Remove-Wallet-Permissions
RemovePayloads ==
    LET ws == Wallets \cup {""}
    IN  {<<>>}
        \cup {[wallet |-> w] : w \in ws}
        \cup {[wallet |-> w, blog_id |-> "blog2"] : w \in ws}

Registry == [wallet_blogs |-> wallet_blogs, blog_wallets |-> blog_wallets, now |-> now]

\* table[key] = nil
Drop(f, k) == [x \in (DOMAIN f) \ {k} |-> f[x]]

validate_wallet(wallet) ==
    IF wallet = Nil \/ wallet = "" THEN Fail(INVALID_WALLET) ELSE Ok

validate_blog_id(blog_id) ==
    IF blog_id = Nil \/ blog_id = "" THEN Fail(INVALID_BLOG_ID) ELSE Ok

\* the role check that lets every non-empty name through
registry_validate_role_lenient(role) ==
    IF role # "" THEN Ok ELSE Fail(INVALID_ROLE_PREFIX \o role)

registry_validate_role(role) ==
    IF \E i \in DOMAIN VALID_ROLES : role = VALID_ROLES[i]
    THEN Ok ELSE Fail(INVALID_ROLE_PREFIX \o role)

RECURSIVE validate_roles(_)
validate_roles(rs) ==
    IF rs = <<>> THEN Ok
    ELSE IF ~registry_validate_role(Head(rs)).ok THEN registry_validate_role(Head(rs))
    ELSE validate_roles(Tail(rs))

\* the registration that adds the pushed roles to the ones already stored
register_wallet_permissions_append(G, wallet, blog_id, rs) ==
    IF ~validate_wallet(wallet).ok THEN Res(G, validate_wallet(wallet))
    ELSE IF ~validate_blog_id(blog_id).ok THEN Res(G, validate_blog_id(blog_id))
    ELSE IF ~validate_roles(rs).ok THEN Res(G, validate_roles(rs))
    ELSE LET timestamp == G.now
             wb0 == IF wallet \in DOMAIN G.wallet_blogs
                    THEN G.wallet_blogs ELSE Put(G.wallet_blogs, wallet, <<>>)
             bw0 == IF blog_id \in DOMAIN G.blog_wallets
                    THEN G.blog_wallets ELSE Put(G.blog_wallets, blog_id, <<>>)
             old == IF blog_id \in DOMAIN wb0[wallet] THEN wb0[wallet][blog_id].roles ELSE <<>>
             entry == [roles |-> old \o rs, last_updated |-> timestamp]
         IN  Res([G EXCEPT
                    !.wallet_blogs = Put(wb0, wallet, Put(wb0[wallet], blog_id, entry)),
                    !.blog_wallets = Put(bw0, blog_id, Put(bw0[blog_id], wallet, entry))],
                 Ok)

\* the registration that keeps the roles already stored and adds the new ones
register_wallet_permissions_merge(G, wallet, blog_id, rs) ==
    IF ~validate_wallet(wallet).ok THEN Res(G, validate_wallet(wallet))
    ELSE IF ~validate_blog_id(blog_id).ok THEN Res(G, validate_blog_id(blog_id))
    ELSE IF ~validate_roles(rs).ok THEN Res(G, validate_roles(rs))
    ELSE LET timestamp == G.now
             wb0 == IF wallet \in DOMAIN G.wallet_blogs
                    THEN G.wallet_blogs ELSE Put(G.wallet_blogs, wallet, <<>>)
             bw0 == IF blog_id \in DOMAIN G.blog_wallets
                    THEN G.blog_wallets ELSE Put(G.blog_wallets, blog_id, <<>>)
             old == IF blog_id \in DOMAIN wb0[wallet] THEN wb0[wallet][blog_id].roles ELSE <<>>
             held(r) == (\E k \in DOMAIN old : old[k] = r) \/ (\E k \in DOMAIN rs : rs[k] = r)
             entry == [roles |-> SelectSeq(VALID_ROLES, held), last_updated |-> timestamp]
         IN  Res([G EXCEPT
                    !.wallet_blogs = Put(wb0, wallet, Put(wb0[wallet], blog_id, entry)),
                    !.blog_wallets = Put(bw0, blog_id, Put(bw0[blog_id], wallet, entry))],
                 Ok)

\* the registration that keeps the time of the entry it writes over
register_wallet_permissions_stale(G, wallet, blog_id, rs) ==
    IF ~validate_wallet(wallet).ok THEN Res(G, validate_wallet(wallet))
    ELSE IF ~validate_blog_id(blog_id).ok THEN Res(G, validate_blog_id(blog_id))
    ELSE IF ~validate_roles(rs).ok THEN Res(G, validate_roles(rs))
    ELSE LET wb0 == IF wallet \in DOMAIN G.wallet_blogs
                    THEN G.wallet_blogs ELSE Put(G.wallet_blogs, wallet, <<>>)
             bw0 == IF blog_id \in DOMAIN G.blog_wallets
                    THEN G.blog_wallets ELSE Put(G.blog_wallets, blog_id, <<>>)
             timestamp == IF blog_id \in DOMAIN wb0[wallet]
                          THEN wb0[wallet][blog_id].last_updated ELSE G.now
             entry == [roles |-> rs, last_updated |-> timestamp]
         IN  Res([G EXCEPT
                    !.wallet_blogs = Put(wb0, wallet, Put(wb0[wallet], blog_id, entry)),
                    !.blog_wallets = Put(bw0, blog_id, Put(bw0[blog_id], wallet, entry))],
                 Ok)

register_wallet_permissions(G, wallet, blog_id, rs) ==
    IF ~validate_wallet(wallet).ok THEN Res(G, validate_wallet(wallet))
    ELSE IF ~validate_blog_id(blog_id).ok THEN Res(G, validate_blog_id(blog_id))
    ELSE IF ~validate_roles(rs).ok THEN Res(G, validate_roles(rs))
    ELSE LET timestamp == G.now
             wb0 == IF wallet \in DOMAIN G.wallet_blogs
                    THEN G.wallet_blogs ELSE Put(G.wallet_blogs, wallet, <<>>)
             bw0 == IF blog_id \in DOMAIN G.blog_wallets
                    THEN G.blog_wallets ELSE Put(G.blog_wallets, blog_id, <<>>)
             entry == [roles |-> rs, last_updated |-> timestamp]
         IN  Res([G EXCEPT
                    !.wallet_blogs = Put(wb0, wallet, Put(wb0[wallet], blog_id, entry)),
                    !.blog_wallets = Put(bw0, blog_id, Put(bw0[blog_id], wallet, entry))],
                 Ok)

\* the removal that forgets the blog -> wallet index
remove_wallet_permissions_one_index(G, wallet, blog_id) ==
    IF ~validate_wallet(wallet).ok THEN Res(G, validate_wallet(wallet))
    ELSE IF ~validate_blog_id(blog_id).ok THEN Res(G, validate_blog_id(blog_id))
    ELSE LET wb1 == IF wallet \in DOMAIN G.wallet_blogs
                    THEN LET inner == Drop(G.wallet_blogs[wallet], blog_id)
                         IN  IF DOMAIN inner = {} THEN Drop(G.wallet_blogs, wallet)
                             ELSE Put(G.wallet_blogs, wallet, inner)
                    ELSE G.wallet_blogs
         IN  Res([G EXCEPT !.wallet_blogs = wb1], Ok)

\* the removal that leaves emptied outer entries in place
remove_wallet_permissions_no_cleanup(G, wallet, blog_id) ==
    IF ~validate_wallet(wallet).ok THEN Res(G, validate_wallet(wallet))
    ELSE IF ~validate_blog_id(blog_id).ok THEN Res(G, validate_blog_id(blog_id))
    ELSE LET wb1 == IF wallet \in DOMAIN G.wallet_blogs
                    THEN Put(G.wallet_blogs, wallet, Drop(G.wallet_blogs[wallet], blog_id))
                    ELSE G.wallet_blogs
             bw1 == IF blog_id \in DOMAIN G.blog_wallets
                    THEN Put(G.blog_wallets, blog_id, Drop(G.blog_wallets[blog_id], wallet))
                    ELSE G.blog_wallets
         IN  Res([G EXCEPT !.wallet_blogs = wb1, !.blog_wallets = bw1], Ok)

\* the removal that drops the wallet with all its blogs
remove_wallet_permissions_wallet(G, wallet, blog_id) ==
    IF ~validate_wallet(wallet).ok THEN Res(G, validate_wallet(wallet))
    ELSE IF ~validate_blog_id(blog_id).ok THEN Res(G, validate_blog_id(blog_id))
    ELSE LET bw1 == IF blog_id \in DOMAIN G.blog_wallets
                    THEN LET inner == Drop(G.blog_wallets[blog_id], wallet)
                         IN  IF DOMAIN inner = {} THEN Drop(G.blog_wallets, blog_id)
                             ELSE Put(G.blog_wallets, blog_id, inner)
                    ELSE G.blog_wallets
         IN  Res([G EXCEPT !.wallet_blogs = Drop(G.wallet_blogs, wallet), !.blog_wallets = bw1], Ok)

remove_wallet_permissions(G, wallet, blog_id) ==
    IF ~validate_wallet(wallet).ok THEN Res(G, validate_wallet(wallet))
    ELSE IF ~validate_blog_id(blog_id).ok THEN Res(G, validate_blog_id(blog_id))
    ELSE LET wb1 == IF wallet \in DOMAIN G.wallet_blogs
                    THEN LET inner == Drop(G.wallet_blogs[wallet], blog_id)
                         IN  IF DOMAIN inner = {} THEN Drop(G.wallet_blogs, wallet)
                             ELSE Put(G.wallet_blogs, wallet, inner)
                    ELSE G.wallet_blogs
             bw1 == IF blog_id \in DOMAIN G.blog_wallets
                    THEN LET inner == Drop(G.blog_wallets[blog_id], wallet)
                         IN  IF DOMAIN inner = {} THEN Drop(G.blog_wallets, blog_id)
                             ELSE Put(G.blog_wallets, blog_id, inner)
                    ELSE G.blog_wallets
         IN  Res([G EXCEPT !.wallet_blogs = wb1, !.blog_wallets = bw1], Ok)

\* the update that hands every valid list, the empty one too, to the registration
update_wallet_roles_register(G, wallet, blog_id, rs) ==
    IF ~validate_roles(rs).ok THEN Res(G, validate_roles(rs))
    ELSE register_wallet_permissions(G, wallet, blog_id, rs)

update_wallet_roles(G, wallet, blog_id, rs) ==
    IF ~validate_roles(rs).ok THEN Res(G, validate_roles(rs))
    ELSE IF Len(rs) = 0 THEN remove_wallet_permissions(G, wallet, blog_id)
    ELSE register_wallet_permissions(G, wallet, blog_id, rs)

\* the entries of a wallet; the list is built in pairs() order, which is not
\* fixed, so it is held as the set of its entries
get_wallet_blogs(G, wallet) ==
    IF ~validate_wallet(wallet).ok THEN Val(Nil, validate_wallet(wallet).err)
    ELSE Val(IF wallet \in DOMAIN G.wallet_blogs
             THEN {[blog_id |-> b, roles |-> G.wallet_blogs[wallet][b].roles,
                    last_updated |-> G.wallet_blogs[wallet][b].last_updated]
                      : b \in DOMAIN G.wallet_blogs[wallet]}
             ELSE {}, Nil)

\* the lookup that answers for the pair alone, whatever roles it holds
wallet_has_role_any(G, wallet, blog_id, role) ==
    IF ~validate_wallet(wallet).ok THEN Val(FALSE, validate_wallet(wallet).err)
    ELSE IF ~validate_blog_id(blog_id).ok THEN Val(FALSE, validate_blog_id(blog_id).err)
    ELSE IF ~registry_validate_role(role).ok THEN Val(FALSE, registry_validate_role(role).err)
    ELSE Val(wallet \in DOMAIN G.wallet_blogs /\ blog_id \in DOMAIN G.wallet_blogs[wallet], Nil)

wallet_has_role(G, wallet, blog_id, role) ==
    IF ~validate_wallet(wallet).ok THEN Val(FALSE, validate_wallet(wallet).err)
    ELSE IF ~validate_blog_id(blog_id).ok THEN Val(FALSE, validate_blog_id(blog_id).err)
    ELSE IF ~registry_validate_role(role).ok THEN Val(FALSE, registry_validate_role(role).err)
    ELSE IF wallet \in DOMAIN G.wallet_blogs /\ blog_id \in DOMAIN G.wallet_blogs[wallet]
    THEN Val(\E i \in DOMAIN G.wallet_blogs[wallet][blog_id].roles :
                 G.wallet_blogs[wallet][blog_id].roles[i] = role, Nil)
    ELSE Val(FALSE, Nil)

\* the sum of the sizes of the inner tables of the wallets in ws
RECURSIVE count_permissions(_, _)
count_permissions(G, ws) ==
    IF ws = {} THEN 0
    ELSE LET w == CHOOSE x \in ws : TRUE
         IN  Cardinality(DOMAIN G.wallet_blogs[w]) + count_permissions(G, ws \ {w})

get_registry_stats(G) ==
    [version |-> REGISTRY_VERSION,
     wallet_count |-> Cardinality(DOMAIN G.wallet_blogs),
     blog_count |-> Cardinality(DOMAIN G.blog_wallets),
     total_permissions |-> count_permissions(G, DOMAIN G.wallet_blogs)]

\* the reply of Check-Wallet-Role to its three tags, Nil standing for a tag
\* the message does not carry
check_wallet_role_handler(G, wallet, blog_id, role) ==
    IF wallet = Nil \/ blog_id = Nil \/ role = Nil
    THEN [success |-> FALSE, data |-> MISSING_TAGS]
    ELSE LET q == wallet_has_role(G, wallet, blog_id, role)
         IN  [success |-> TRUE, data |-> [has_role |-> q.val, error |-> q.err]]

\* the three write handlers: what they do to the store and what they reply

\* the handler taking the blog from the payload when the payload names one
register_handler_payload_blog(G, from, data) ==
    IF "wallet" \notin DOMAIN data \/ "roles" \notin DOMAIN data
    THEN Res(G, Fail(MISSING_WALLET_ROLES))
    ELSE register_wallet_permissions(G, data.wallet,
             IF "blog_id" \in DOMAIN data THEN data.blog_id ELSE from, data.roles)

register_handler(G, from, data) ==
    IF "wallet" \notin DOMAIN data \/ "roles" \notin DOMAIN data
    THEN Res(G, Fail(MISSING_WALLET_ROLES))
    ELSE register_wallet_permissions(G, data.wallet, from, data.roles)

remove_handler(G, from, data) ==
    IF "wallet" \notin DOMAIN data
    THEN Res(G, Fail(MISSING_WALLET))
    ELSE remove_wallet_permissions(G, data.wallet, from)

update_handler(G, from, data) ==
    IF "wallet" \notin DOMAIN data \/ "roles" \notin DOMAIN data
    THEN Res(G, Fail(MISSING_WALLET_ROLES))
    ELSE update_wallet_roles(G, data.wallet, from, data.roles)

SetRegistry(G) ==
    /\ wallet_blogs' = G.wallet_blogs
    /\ blog_wallets' = G.blog_wallets

RegisterWalletPermissions(from, data) ==
    LET r == register_handler(Registry, from, data)
    IN  /\ SetRegistry(r.S)
        /\ UNCHANGED <<acVars, ret, outbox, delivered, now, postVars, client>>

RemoveWalletPermissions(from, data) ==
    LET r == remove_handler(Registry, from, data)
    IN  /\ SetRegistry(r.S)
        /\ UNCHANGED <<acVars, ret, outbox, delivered, now, postVars, client>>

UpdateWalletRoles(from, data) ==
    LET r == update_handler(Registry, from, data)
    IN  /\ SetRegistry(r.S)
        /\ UNCHANGED <<acVars, ret, outbox, delivered, now, postVars, client>>

\* os.time() moves on
Tick ==
    /\ now < MaxTime
    /\ now' = now + 1
    /\ UNCHANGED <<acVars, regVars, ret, outbox, delivered, postVars, client>>

NextRegistry ==
    \/ \E b \in Blogs, d \in WritePayloads : RegisterWalletPermissions(b, d)
    \/ \E b \in Blogs, d \in RemovePayloads : RemoveWalletPermissions(b, d)
    \/ \E b \in Blogs, d \in WritePayloads : UpdateWalletRoles(b, d)
    \/ Tick

SpecRegistry == Init /\ [][NextRegistry]_vars

-----------------------------------------------------------------------------
(* The blog contract: role handlers and the pushes to the registry *)

\* most messages the model lets the blog send to the registry
MaxOutbox == 2
\* most registry deliveries the model follows
MaxDeliveries == 2

\* the wallet that spawned the blog process, and the process itself
Owner == "A"
BlogId == "blog1"
\* the registry process id the contract was built with
RegistryProcess == "registry"
REGISTRY_PLACEHOLDER == "YOUR_REGISTRY_PROCESS_ID"

ACCOUNTS_REQUIRED == "Field 'accounts' is required and must be an array"
ACCOUNTS_EMPTY == "Field 'accounts' must contain at least one account"

\* decoded msg.Data of the role messages: with or without an accounts list
AccountLists == {<<>>, <<"A">>, <<"B">>, <<"B", "A">>, <<"", "B">>}
RolePayloads == {<<>>} \cup {[accounts |-> l] : l \in AccountLists}

\* the engine right after the contract has been loaded
EmptyStore == [is_initialized |-> FALSE, roles |-> {}, role_members |-> <<>>,
               role_admins |-> <<>>, is_log_enabled |-> TRUE, events |-> <<>>,
               now |-> now]
LoadedStore ==
    LET S1 == init(EmptyStore, Owner, Owner, FALSE).S
        S2 == create_role(S1, Owner, EDITOR, DEFAULT_ADMIN).S
    IN  grant_role(S2, Owner, EDITOR, Owner).S

\* what ao.send is given by sync_wallet_to_registry; none when the registry
\* process id was left at its placeholder
sync_wallet_to_registry(wallet, rs) ==
    IF RegistryProcess = Nil \/ RegistryProcess = REGISTRY_PLACEHOLDER THEN <<>>
    ELSE << [Target |-> RegistryProcess, Action |-> "Register-Wallet-Permissions",
             Data |-> [wallet |-> wallet, roles |-> rs]] >>

\* the helper that tells the registry nothing
remove_wallet_from_registry_silent(wallet) == <<>>

remove_wallet_from_registry(wallet) ==
    IF RegistryProcess = Nil \/ RegistryProcess = REGISTRY_PLACEHOLDER THEN <<>>
    ELSE << [Target |-> RegistryProcess, Action |-> "Remove-Wallet-Permissions",
             Data |-> [wallet |-> wallet]] >>

\* the snapshot that reports the editor membership only
get_wallet_roles_for_registry_editor_only(S, wallet) ==
    IF has_role(S, wallet, EDITOR).val THEN <<EDITOR>> ELSE <<>>

\* the snapshot that lists both roles for whoever holds one
get_wallet_roles_for_registry_both(S, wallet) ==
    IF has_role(S, wallet, DEFAULT_ADMIN).val \/ has_role(S, wallet, EDITOR).val
    THEN <<DEFAULT_ADMIN, EDITOR>> ELSE <<>>

get_wallet_roles_for_registry(S, wallet) ==
    (IF has_role(S, wallet, DEFAULT_ADMIN).val THEN <<DEFAULT_ADMIN>> ELSE <<>>)
    \o (IF has_role(S, wallet, EDITOR).val THEN <<EDITOR>> ELSE <<>>)

\* role_action(msg.From, role, account) for the two functions the handlers pass
role_action_call(role_action, S, caller, role, account) ==
    IF role_action = "grant_role" THEN grant_role(S, caller, role, account)
    ELSE revoke_role(S, caller, role, account)

\* the loop of update_roles over data.accounts: the store, the messages sent,
\* the results table and global_success
RECURSIVE update_roles_loop(_, _, _, _, _, _)
update_roles_loop(acc, from, role_action, role, accounts, k) ==
    IF k > Len(accounts) THEN acc
    ELSE LET account == accounts[k]
         IN  IF account = ""
             THEN update_roles_loop(
                      [acc EXCEPT !.results = Append(@, <<account, FALSE, INVALID_ACCOUNT>>),
                                  !.ok = FALSE],
                      from, role_action, role, accounts, k + 1)
             ELSE LET r == role_action_call(role_action, acc.S, from, role, account)
                      rs == get_wallet_roles_for_registry(r.S, account)
                      sent == IF ~r.ok THEN <<>>
                              ELSE IF Len(rs) > 0 THEN sync_wallet_to_registry(account, rs)
                              ELSE remove_wallet_from_registry(account)
                  IN  update_roles_loop(
                          [S |-> r.S, out |-> acc.out \o sent,
                           results |-> Append(acc.results, <<account, r.ok, r.err>>),
                           ok |-> acc.ok /\ r.ok, err |-> Nil],
                          from, role_action, role, accounts, k + 1)

\* the role update that does not ask who sent the message
update_roles_open(S, from, data, role_action, role) ==
    LET none == [S |-> S, out |-> <<>>, results |-> <<>>, ok |-> FALSE, err |-> Nil]
    IN  IF "accounts" \notin DOMAIN data THEN [none EXCEPT !.err = ACCOUNTS_REQUIRED]
        ELSE IF Len(data.accounts) = 0 THEN [none EXCEPT !.err = ACCOUNTS_EMPTY]
        ELSE update_roles_loop([none EXCEPT !.ok = TRUE], from, role_action, role,
                               data.accounts, 1)

update_roles(S, from, data, role_action, role) ==
    LET none == [S |-> S, out |-> <<>>, results |-> <<>>, ok |-> FALSE, err |-> Nil]
    IN  IF ~only_role(S, from, DEFAULT_ADMIN).ok
        THEN [none EXCEPT !.err = only_role(S, from, DEFAULT_ADMIN).err]
        ELSE IF "accounts" \notin DOMAIN data THEN [none EXCEPT !.err = ACCOUNTS_REQUIRED]
        ELSE IF Len(data.accounts) = 0 THEN [none EXCEPT !.err = ACCOUNTS_EMPTY]
        ELSE update_roles_loop([none EXCEPT !.ok = TRUE], from, role_action, role,
                               data.accounts, 1)

\* the contract's get_role_members: the members as the reply carries them,
\* a set because the list comes in pairs() order
blog_get_role_members(S, role) ==
    LET q == get_role_members(S, role)
    IN  IF q.err # Nil THEN [success |-> FALSE, data |-> q.err]
        ELSE [success |-> TRUE, data |-> q.val]

\* the replies of Get-Editors and Get-Admins; both handlers pass ROLES.EDITOR
get_editors_handler(S) == blog_get_role_members(S, EDITOR)
get_admins_handler(S) == blog_get_role_members(S, EDITOR)

\* a contract that answers a rejected push by dropping its editors
unmatched_message_rollback(S, msg) ==
    IF msg.success THEN S ELSE [S EXCEPT !.role_members[EDITOR] = {}]

\* a message that matches none of the contract's handlers, such as the reply
\* of the registry, leaves the contract's state alone
unmatched_message(S, msg) == S

\* the handlers of Add-Editors, Remove-Editors, Add-Admins and Remove-Admins;
\* cap is the most messages the model lets the outbox hold
AddEditors(from, data, cap) ==
    LET r == update_roles(Store, from, data, "grant_role", EDITOR)
    IN  /\ Len(outbox) + Len(r.out) <= cap
        /\ SetStoreOf(r.S)
        /\ outbox' = outbox \o r.out
        /\ ret' = Reply("Add-Editors", r)
        /\ UNCHANGED <<regVars, delivered, now, postVars, client>>

RemoveEditors(from, data, cap) ==
    LET r == update_roles(Store, from, data, "revoke_role", EDITOR)
    IN  /\ Len(outbox) + Len(r.out) <= cap
        /\ SetStoreOf(r.S)
        /\ outbox' = outbox \o r.out
        /\ ret' = Reply("Remove-Editors", r)
        /\ UNCHANGED <<regVars, delivered, now, postVars, client>>

AddAdmins(from, data, cap) ==
    LET r == update_roles(Store, from, data, "grant_role", DEFAULT_ADMIN)
    IN  /\ Len(outbox) + Len(r.out) <= cap
        /\ SetStoreOf(r.S)
        /\ outbox' = outbox \o r.out
        /\ ret' = Reply("Add-Admins", r)
        /\ UNCHANGED <<regVars, delivered, now, postVars, client>>

RemoveAdmins(from, data, cap) ==
    LET r == update_roles(Store, from, data, "revoke_role", DEFAULT_ADMIN)
    IN  /\ Len(outbox) + Len(r.out) <= cap
        /\ SetStoreOf(r.S)
        /\ outbox' = outbox \o r.out
        /\ ret' = Reply("Remove-Admins", r)
        /\ UNCHANGED <<regVars, delivered, now, postVars, client>>

\* what the registry does with a message of the blog
registry_handle(G, from, msg) ==
    IF msg.Action = "Register-Wallet-Permissions" THEN register_handler(G, from, msg.Data)
    ELSE IF msg.Action = "Remove-Wallet-Permissions" THEN remove_handler(G, from, msg.Data)
    ELSE update_handler(G, from, msg.Data)

\* the registry handles the i-th message the blog sent (a message may be
\* handled late, more than once, or never) and its reply reaches the blog
Deliver(i) ==
    LET r == registry_handle(Registry, BlogId, outbox[i])
    IN  /\ i \in DOMAIN outbox
        /\ Len(delivered) < MaxDeliveries
        /\ SetRegistry(r.S)
        /\ delivered' = Append(delivered, i)
        /\ SetStoreOf(unmatched_message(Store, [From |-> RegistryProcess, success |-> r.ok]))
        /\ UNCHANGED <<ret, outbox, now, postVars, client>>

InitSync ==
    /\ now = 0
    /\ SetStoreIs(LoadedStore)
    /\ ret = Reply("load", Ok)
    /\ InitRegistry
    /\ outbox = <<>>
    /\ delivered = <<>>
    /\ InitPosts
    /\ InitClient

NextSync ==
    \/ \E from \in Accounts, d \in RolePayloads : AddEditors(from, d, MaxOutbox)
    \/ \E from \in Accounts, d \in RolePayloads : RemoveEditors(from, d, MaxOutbox)
    \/ \E from \in Accounts, d \in RolePayloads : AddAdmins(from, d, MaxOutbox)
    \/ \E from \in Accounts, d \in RolePayloads : RemoveAdmins(from, d, MaxOutbox)
    \/ \E i \in 1..MaxOutbox : Deliver(i)

SpecSync == InitSync /\ [][NextSync]_vars

-----------------------------------------------------------------------------
(* The blog contract with Sync-With-Registry, over an in-order channel *)

\* most messages the model lets the blog send over the in-order channel
MaxSent == 4

\* AccessControl.ROLES, the names Sync-With-Registry walks with pairs()
ROLES == <<"DEFAULT_ADMIN_ROLE", "MINTER_ROLE", "BURNER_ROLE", "PAUSER_ROLE",
           "MANAGER_ROLE", "MODERATOR_ROLE", "UPGRADER_ROLE", "ADMIN_ROLE",
           "EDITOR_ROLE", "VIEWER_ROLE">>
\* pairs() promises no order: the listed one and its reverse
RoleOrders == {ROLES, [k \in DOMAIN ROLES |-> ROLES[Len(ROLES) + 1 - k]]}
\* orders in which pairs() may hand out the members of a role
MemberOrders == {<<"A", "B">>, <<"B", "A">>}

\* the inner loop of Sync-With-Registry over the members of one role
RECURSIVE sync_members_loop(_, _, _)
sync_members_loop(S, members, k) ==
    IF k > Len(members) THEN <<>>
    ELSE LET wallet == members[k]
             rs == get_wallet_roles_for_registry(S, wallet)
         IN  (IF Len(rs) > 0 THEN sync_wallet_to_registry(wallet, rs) ELSE <<>>)
             \o sync_members_loop(S, members, k + 1)

\* the outer loop of Sync-With-Registry over AccessControl.ROLES
RECURSIVE sync_roles_loop(_, _, _, _)
sync_roles_loop(S, role_order, member_order, k) ==
    IF k > Len(role_order) THEN <<>>
    ELSE LET got == get_role_members(S, role_order[k])
             in_role(a) == a \in got.val
             sent == IF got.err # Nil THEN <<>>
                     ELSE sync_members_loop(S, SelectSeq(member_order, in_role), 1)
         IN  sent \o sync_roles_loop(S, role_order, member_order, k + 1)

\* the Sync-With-Registry handler: the messages it sends and what it replies
sync_with_registry(S, from, role_order, member_order) ==
    IF ~only_role(S, from, DEFAULT_ADMIN).ok
    THEN [out |-> <<>>, ok |-> FALSE, err |-> only_role(S, from, DEFAULT_ADMIN).err]
    ELSE [out |-> sync_roles_loop(S, role_order, member_order, 1), ok |-> TRUE, err |-> Nil]

\* sync_results as the inner loop of Sync-With-Registry fills it
RECURSIVE sync_results_members(_, _, _)
sync_results_members(S, members, k) ==
    IF k > Len(members) THEN <<>>
    ELSE LET wallet == members[k]
             rs == get_wallet_roles_for_registry(S, wallet)
         IN  (IF Len(rs) > 0 THEN <<[wallet |-> wallet, roles |-> rs, synced |-> TRUE]>> ELSE <<>>)
             \o sync_results_members(S, members, k + 1)

\* sync_results after the outer loop over AccessControl.ROLES
RECURSIVE sync_results_roles(_, _, _, _)
sync_results_roles(S, role_order, member_order, k) ==
    IF k > Len(role_order) THEN <<>>
    ELSE LET got == get_role_members(S, role_order[k])
             in_role(a) == a \in got.val
             res == IF got.err # Nil THEN <<>>
                    ELSE sync_results_members(S, SelectSeq(member_order, in_role), 1)
         IN  res \o sync_results_roles(S, role_order, member_order, k + 1)

\* the data of the reply Sync-With-Registry sends to an admin
sync_reply(S, role_order, member_order) ==
    LET sync_results == sync_results_roles(S, role_order, member_order, 1)
    IN  [message |-> "Sync completed", synced_wallets |-> Len(sync_results),
         results |-> sync_results]

SyncWithRegistry(from, role_order, member_order) ==
    LET r == sync_with_registry(Store, from, role_order, member_order)
    IN  /\ Len(outbox) + Len(r.out) <= MaxSent
        /\ outbox' = outbox \o r.out
        /\ ret' = Reply("Sync-With-Registry", r)
        /\ UNCHANGED <<acVars, regVars, delivered, now, postVars, client>>

\* the registry handles the oldest message it has not handled yet
DeliverInOrder ==
    LET i == Len(delivered) + 1
        r == registry_handle(Registry, BlogId, outbox[i])
    IN  /\ i \in DOMAIN outbox
        /\ SetRegistry(r.S)
        /\ delivered' = Append(delivered, i)
        /\ SetStoreOf(unmatched_message(Store, [From |-> RegistryProcess, success |-> r.ok]))
        /\ UNCHANGED <<ret, outbox, now, postVars, client>>

\* role messages that name one account
SinglePayloads == {[accounts |-> <<a>>] : a \in Accounts}

NextFifo ==
    \/ \E from \in Accounts, d \in SinglePayloads : AddEditors(from, d, MaxSent)
    \/ \E from \in Accounts, d \in SinglePayloads : RemoveEditors(from, d, MaxSent)
    \/ \E from \in Accounts, d \in SinglePayloads : AddAdmins(from, d, MaxSent)
    \/ \E from \in Accounts, d \in SinglePayloads : RemoveAdmins(from, d, MaxSent)
    \/ \E from \in Accounts, ro \in RoleOrders, mo \in MemberOrders : SyncWithRegistry(from, ro, mo)
    \/ DeliverInOrder

\* every message sent is delivered, once and in send order
SpecFifo == InitSync /\ [][NextFifo]_vars /\ WF_vars(DeliverInOrder)

\* the registry handles a message sent after the one it handled last; the
\* messages passed over are lost
DeliverSkipping(i) ==
    LET r == registry_handle(Registry, BlogId, outbox[i])
    IN  /\ i \in DOMAIN outbox
        /\ delivered # <<>> => i > delivered[Len(delivered)]
        /\ SetRegistry(r.S)
        /\ delivered' = Append(delivered, i)
        /\ SetStoreOf(unmatched_message(Store, [From |-> RegistryProcess, success |-> r.ok]))
        /\ UNCHANGED <<ret, outbox, now, postVars, client>>

\* a blog whose editors are changed and that is resynced
NextLossy ==
    \/ \E from \in Accounts, d \in SinglePayloads : AddEditors(from, d, MaxSent)
    \/ \E from \in Accounts, d \in SinglePayloads : RemoveEditors(from, d, MaxSent)
    \/ \E from \in Accounts, ro \in RoleOrders, mo \in MemberOrders : SyncWithRegistry(from, ro, mo)
    \/ \E i \in 1..MaxSent : DeliverSkipping(i)

\* messages arrive in send order, but any of them may be lost
SpecLossy == InitSync /\ [][NextLossy]_vars

-----------------------------------------------------------------------------
(* The blog contract's posts (BLOG_CONTRACT of src/core/browser-deploy.ts) *)

\* the most posts the model lets the blog create
MaxPosts == 2

TITLE_REQUIRED == "Field title is required and must be a non-empty string"
AUTHORS_REQUIRED == "Field authors is required, must be a table and should have at least 1 item"
AUTHORS_INVALID == "Fields within authors are required and must all be non-empty strings"
ID_NOT_NUMBER == "ID must be a number"
POST_NOT_FOUND == "Post not found"

\* decoded bodies of post messages: two posts that pass validation, one
\* without a title, one without authors, one with an empty author
PostData ==
    { [title |-> t, authors |-> a] : t \in {"t1", "t2"}, a \in {<<"A">>} }
    \cup { [title |-> "", authors |-> <<"A">>],
           [title |-> "t1", authors |-> <<>>],
           [title |-> "t1", authors |-> <<"">>] }

\* msg.Data of a post message: a JSON text that decodes to one of PostData,
\* or a text safe_json_decode returns nil for
PostBodies == {[decodes |-> TRUE, data |-> d] : d \in PostData} \cup {[decodes |-> FALSE]}

\* msg.Tags.Id
IdTags == {"1", "2", "x"}

\* Lua's tonumber on an Id tag: num tells whether a number came out
tonumber(t) ==
    IF t = "1" THEN [num |-> TRUE, n |-> 1]
    ELSE IF t = "2" THEN [num |-> TRUE, n |-> 2]
    ELSE [num |-> FALSE, n |-> 0]

\* the post storage as one value
PostStore == [Posts |-> Posts, Next_id |-> Next_id]

SetPostStore(P) ==
    /\ Posts' = P.Posts
    /\ Next_id' = P.Next_id

\* validate_post on a decoded table; the fields description, published_at
\* and last_update are present and well typed in every body of PostData
validate_post(data) ==
    IF data.title = "" THEN Fail(TITLE_REQUIRED)
    ELSE IF Len(data.authors) = 0 THEN Fail(AUTHORS_REQUIRED)
    ELSE IF \E i \in DOMAIN data.authors : data.authors[i] = "" THEN Fail(AUTHORS_INVALID)
    ELSE Ok

\* Posts with Posts[id] = post
PostsWith(posts, id, post) ==
    [i \in DOMAIN posts \cup {id} |-> IF i = id THEN post ELSE posts[i]]

\* Posts with Posts[id] = nil
PostsWithout(posts, id) == [i \in DOMAIN posts \ {id} |-> posts[i]]

\* create_post: ok tells whether a post (not nil) was returned
create_post(P, data) ==
    IF ~validate_post(data).ok THEN [P |-> P, ok |-> FALSE, err |-> validate_post(data).err]
    ELSE LET post == [title |-> data.title, authors |-> data.authors, id |-> P.Next_id]
         IN  [P |-> [Posts |-> PostsWith(P.Posts, post.id, post), Next_id |-> P.Next_id + 1],
              ok |-> TRUE, err |-> Nil]

update_post(P, id, data) ==
    IF ~id.num THEN [P |-> P, ok |-> FALSE, err |-> ID_NOT_NUMBER]
    ELSE IF id.n \notin DOMAIN P.Posts THEN [P |-> P, ok |-> FALSE, err |-> POST_NOT_FOUND]
    ELSE IF ~validate_post(data).ok THEN [P |-> P, ok |-> FALSE, err |-> validate_post(data).err]
    ELSE LET post == [P.Posts[id.n] EXCEPT !.title = data.title, !.authors = data.authors]
         IN  [P |-> [P EXCEPT !.Posts = PostsWith(P.Posts, id.n, post)], ok |-> TRUE, err |-> Nil]

delete_post(P, id) ==
    IF ~id.num THEN [P |-> P, ok |-> FALSE, err |-> ID_NOT_NUMBER]
    ELSE IF id.n \notin DOMAIN P.Posts THEN [P |-> P, ok |-> FALSE, err |-> POST_NOT_FOUND]
    ELSE [P |-> [P EXCEPT !.Posts = PostsWithout(P.Posts, id.n)], ok |-> TRUE, err |-> Nil]

\* a Create-Post handler that lets any sender through
create_post_handler_open(S, P, from, body) ==
    IF ~body.decodes THEN [P |-> P, ok |-> FALSE, err |-> INVALID_JSON]
    ELSE create_post(P, body.data)

\* the Create-Post handler run on store S and posts P for a message from
\* `from` with body `body`: the posts it leaves and the reply it sends
create_post_handler(S, P, from, body) ==
    IF ~only_role(S, from, EDITOR).ok
    THEN [P |-> P, ok |-> FALSE, err |-> only_role(S, from, EDITOR).err]
    ELSE IF ~body.decodes THEN [P |-> P, ok |-> FALSE, err |-> INVALID_JSON]
    ELSE create_post(P, body.data)

update_post_handler(S, P, from, tag, body) ==
    IF ~only_role(S, from, EDITOR).ok
    THEN [P |-> P, ok |-> FALSE, err |-> only_role(S, from, EDITOR).err]
    ELSE IF ~body.decodes THEN [P |-> P, ok |-> FALSE, err |-> INVALID_JSON]
    ELSE update_post(P, tonumber(tag), body.data)

delete_post_handler(S, P, from, tag) ==
    IF ~only_role(S, from, EDITOR).ok
    THEN [P |-> P, ok |-> FALSE, err |-> only_role(S, from, EDITOR).err]
    ELSE delete_post(P, tonumber(tag))

CreatePost(from, body) ==
    LET r == create_post_handler(Store, PostStore, from, body)
    IN  /\ r.P.Next_id <= MaxPosts + 1
        /\ SetPostStore(r.P)
        /\ ret' = [op |-> "Create-Post", ok |-> r.ok, err |-> r.err, from |-> from]
        /\ UNCHANGED <<acVars, regVars, outbox, delivered, now, client>>

UpdatePost(from, tag, body) ==
    LET r == update_post_handler(Store, PostStore, from, tag, body)
    IN  /\ SetPostStore(r.P)
        /\ ret' = [op |-> "Update-Post", ok |-> r.ok, err |-> r.err, from |-> from]
        /\ UNCHANGED <<acVars, regVars, outbox, delivered, now, client>>

DeletePost(from, tag) ==
    LET r == delete_post_handler(Store, PostStore, from, tag)
    IN  /\ SetPostStore(r.P)
        /\ ret' = [op |-> "Delete-Post", ok |-> r.ok, err |-> r.err, from |-> from]
        /\ UNCHANGED <<acVars, regVars, outbox, delivered, now, client>>

\* a blog whose editors change while post messages arrive
NextPosts ==
    \/ \E from \in Accounts, d \in SinglePayloads : AddEditors(from, d, MaxOutbox)
    \/ \E from \in Accounts, d \in SinglePayloads : RemoveEditors(from, d, MaxOutbox)
    \/ \E from \in Accounts, b \in PostBodies : CreatePost(from, b)
    \/ \E from \in Accounts, t \in IdTags, b \in PostBodies : UpdatePost(from, t, b)
    \/ \E from \in Accounts, t \in IdTags : DeletePost(from, t)

SpecPosts == InitSync /\ [][NextPosts]_vars

-----------------------------------------------------------------------------
(* retryWithDelay (src/utils/utils.ts) *)

\* the largest maxAttempts a caller passes
MaxAttempts == 4

\* what the blog and registry processes hold; the SDK's steps leave it alone
processVars == <<acVars, regVars, ret, outbox, delivered, now, postVars>>

\* values fn resolves with and errors it rejects with
FnValues == {"v1", "v2"}
FnErrors == {"e1", "e2"}

\* retryWithDelay(fn, maxAttempts): attempts = 0, then attempt() is called,
\* which calls fn. outcomes lists the calls of fn that have settled, running
\* counts the calls of fn in flight, settled is what the promise returned by
\* retryWithDelay resolved or rejected with
retry_start(maxAttempts) ==
    [pc |-> "calling", maxAttempts |-> maxAttempts, attempts |-> 0,
     outcomes |-> <<>>, running |-> 1, settled |-> Nil]

\* `return await fn()` when fn resolves with v
attempt_return(c, v) ==
    [c EXCEPT !.pc = "resolved", !.outcomes = Append(@, [ok |-> TRUE, val |-> v]),
              !.running = 0, !.settled = v]

\* a catch block that retries once more than it was told
attempt_catch_extra(c, error) ==
    LET attempts == c.attempts + 1
        c1 == [c EXCEPT !.attempts = attempts, !.running = 0,
                        !.outcomes = Append(@, [ok |-> FALSE, val |-> error])]
    IN  IF attempts <= c.maxAttempts
        THEN [c1 EXCEPT !.pc = "waiting"]
        ELSE [c1 EXCEPT !.pc = "rejected", !.settled = error]

\* the catch block of attempt when fn rejects with error
attempt_catch(c, error) ==
    LET attempts == c.attempts + 1
        c1 == [c EXCEPT !.attempts = attempts, !.running = 0,
                        !.outcomes = Append(@, [ok |-> FALSE, val |-> error])]
    IN  IF attempts < c.maxAttempts
        THEN [c1 EXCEPT !.pc = "waiting"]
        ELSE [c1 EXCEPT !.pc = "rejected", !.settled = error]

\* the setTimeout callback: resolve(attempt()) calls fn again
attempt_again(c) == [c EXCEPT !.pc = "calling", !.running = 1]

RetryWithDelay(maxAttempts) ==
    /\ client.pc = "idle"
    /\ client' = retry_start(maxAttempts)
    /\ UNCHANGED processVars

FnResolves(v) ==
    /\ client.pc = "calling"
    /\ client' = attempt_return(client, v)
    /\ UNCHANGED processVars

FnRejects(error) ==
    /\ client.pc = "calling"
    /\ client' = attempt_catch(client, error)
    /\ UNCHANGED processVars

TimerFires ==
    /\ client.pc = "waiting"
    /\ client' = attempt_again(client)
    /\ UNCHANGED processVars

NextRetry ==
    \/ \E m \in 0..MaxAttempts : RetryWithDelay(m)
    \/ \E v \in FnValues : FnResolves(v)
    \/ \E e \in FnErrors : FnRejects(e)
    \/ TimerFires

\* every call of fn settles and every timer fires
SpecRetry == Init /\ [][NextRetry]_vars /\ WF_vars(NextRetry)

-----------------------------------------------------------------------------
(* The SDK's write operations (src/core/blog-sdk.ts) *)

\* the methods that send a message and then fetch its result, with the
\* Action tag each one sends
WriteMethods ==
    [createPost |-> "Create-Post", updatePost |-> "Update-Post",
     deletePost |-> "Delete-Post", addEditors |-> "Add-Editors",
     removeEditors |-> "Remove-Editors", addAdmins |-> "Add-Admins",
     removeAdmins |-> "Remove-Admins", setBlogDetails |-> "Set-Blog-Details"]

\* a JavaScript string, as the pieces it was put together from
Text(parts) == [kind |-> "string", v |-> parts]

INVALID_RESPONSE == Text(<<"Invalid response format from process">>)
JSON_SYNTAX_ERROR == Text(<<"Unexpected token">>)
VALIDATION_ERROR == Text(<<"validation failed">>)
SEND_ERROR == Text(<<"send failed">>)

\* ids aoconnect.message resolves with
MessageIds == {"m1", "m2"}

\* what aoconnect.message does: resolves with an id, resolves with nothing,
\* or rejects
MessageOutcomes ==
    {[kind |-> "id", id |-> m] : m \in MessageIds}
    \cup {[kind |-> "none"], [kind |-> "throws"]}

\* reply_msg: Data = json.encode({success, data}), data being a table (a
\* post, a list of results) on success and an error message on failure
Replies ==
    {[success |-> TRUE, data |-> [kind |-> "object", v |-> <<"table">>]]}
    \cup {[success |-> FALSE, data |-> Text(<<e>>)] : e \in {POST_NOT_FOUND, MISSING_ROLE}}

\* what aoconnect.result does: rejects, or resolves with the messages the
\* process sent while handling the message
ResultOutcomes ==
    {[kind |-> "throws"], [kind |-> "result", Messages |-> <<>>]}
    \cup {[kind |-> "result", Messages |-> <<[Data |-> r]>>] : r \in Replies}

\* JSON.parse on a string: "[]" is a JSON text, an error message of the
\* blog process is not, and JSON.parse throws a SyntaxError on it
JSON_parse(s) ==
    IF s.v = <<"[]">> THEN [ok |-> TRUE, val |-> [kind |-> "object", v |-> <<"list">>]]
    ELSE [ok |-> FALSE]

\* parseResponse(result, recursiveParse)
parseResponse(result, recursiveParse) ==
    IF Len(result.Messages) = 0 THEN [success |-> FALSE, data |-> INVALID_RESPONSE]
    ELSE LET parsed == result.Messages[1].Data
         IN  IF recursiveParse /\ parsed.data.kind = "string"
             THEN IF JSON_parse(parsed.data).ok
                  THEN [success |-> parsed.success, data |-> JSON_parse(parsed.data).val]
                  ELSE [success |-> FALSE, data |-> JSON_SYNTAX_ERROR]
             ELSE [success |-> parsed.success, data |-> parsed.data]

parseMessageResponse(result) == parseResponse(result, TRUE)
parseDryrunResponse(result) == parseResponse(result, FALSE)

\* the parser a method hands the fetched result to
parse_result(method, result) ==
    IF method = "setBlogDetails" THEN parseDryrunResponse(result)
    ELSE parseMessageResponse(result)

\* the method has returned `response`
returned(c, response) ==
    [pc |-> "returned", method |-> c.method, calls |-> c.calls,
     sent |-> c.sent, fetched |-> c.fetched, response |-> response]

\* a write method is called: the validators throw on bad input, else
\* aoconnect.message is called
write_call(method, valid) ==
    LET c == [pc |-> "sending", method |-> method, calls |-> <<>>,
              sent |-> [kind |-> "unsent"], fetched |-> [kind |-> "unfetched"]]
    IN  IF ~valid THEN returned(c, [success |-> FALSE, data |-> VALIDATION_ERROR])
        ELSE [c EXCEPT !.calls = <<"message">>]

\* aoconnect.message settles
message_settles(c, o) ==
    LET c1 == [c EXCEPT !.sent = o]
    IN  IF o.kind = "throws" THEN returned(c1, [success |-> FALSE, data |-> SEND_ERROR])
        ELSE IF o.kind = "none"
        THEN returned(c1, [success |-> FALSE,
                           data |-> Text(<<WriteMethods[c.method], " message failed">>)])
        ELSE [c1 EXCEPT !.pc = "fetching", !.calls = Append(@, "result")]

\* getMessageResult settles
result_settles(c, o) ==
    LET c1 == [c EXCEPT !.fetched = o]
    IN  IF o.kind = "throws"
        THEN returned(c1, [success |-> TRUE,
                           data |-> Text(<<c.method, " successfully. Message ID: ", c.sent.id>>)])
        ELSE returned(c1, parse_result(c.method, o))

SdkWrite(method, valid) ==
    /\ client.pc \in {"idle", "returned"}
    /\ client' = write_call(method, valid)
    /\ UNCHANGED processVars

MessageSettles(o) ==
    /\ client.pc = "sending"
    /\ client' = message_settles(client, o)
    /\ UNCHANGED processVars

ResultSettles(o) ==
    /\ client.pc = "fetching"
    /\ client' = result_settles(client, o)
    /\ UNCHANGED processVars

NextSdk ==
    \/ \E m \in DOMAIN WriteMethods, valid \in BOOLEAN : SdkWrite(m, valid)
    \/ \E o \in MessageOutcomes : MessageSettles(o)
    \/ \E o \in ResultOutcomes : ResultSettles(o)

SpecSdk == Init /\ [][NextSdk]_vars

-----------------------------------------------------------------------------
(* deployBlogInBrowser (src/core/browser-deploy.ts) *)

\* values BLOG_REGISTRY_PROCESS_ID is built with
RegistryIds == {"", REGISTRY_PLACEHOLDER, RegistryProcess}

\* how messageProcessAndGetResult ends: aoconnect.message kept rejecting,
\* the message went out but aoconnect.result kept rejecting or reported an
\* error, or the result came back clean
MessageResults == {"send_failed", "result_failed", "ok"}

\* where the signer comes from: options.wallet, globalThis.arweaveWallet,
\* or nowhere
WalletSources == {"provided", "browser", "none"}

\* what retryWithDelay(() => aoconnect.spawn(...)) ends with: a process id,
\* or a rejection
SpawnOutcomes == {[ok |-> TRUE, id |-> p] : p \in {BlogId, "blog2"}} \cup {[ok |-> FALSE]}

\* the deployment has thrown
deploy_throws(c) == [c EXCEPT !.pc = "threw"]

\* deployBlogInBrowser up to the call of aoconnect.spawn; calls lists the
\* aoconnect operations called so far
deploy_start(registry_id, wallet, onBoot, pollForSpawn) ==
    LET c == [pc |-> "spawning", registry_id |-> registry_id, wallet |-> wallet, onBoot |-> onBoot,
              pollForSpawn |-> pollForSpawn, calls |-> <<>>, processId |-> Nil,
              messageId |-> "", load |-> "none", sync |-> "none"]
    IN  IF registry_id = "" \/ registry_id = REGISTRY_PLACEHOLDER THEN deploy_throws(c)
        ELSE IF wallet = "none" THEN deploy_throws(c)
        ELSE [c EXCEPT !.calls = <<IF onBoot THEN "spawn On-Boot" ELSE "spawn">>]

\* retryWithDelay(() => aoconnect.spawn(...)) settles
spawn_settles(c, o) ==
    IF o.ok THEN [c EXCEPT !.pc = "waiting", !.processId = o.id]
    ELSE deploy_throws(c)

\* the message sent once the process is up: Eval without On-Boot, else the sync
after_wait(c) ==
    IF ~c.onBoot THEN [c EXCEPT !.pc = "loading", !.calls = Append(@, "Eval")]
    ELSE [c EXCEPT !.pc = "syncing", !.calls = Append(@, "Sync-With-Registry")]

\* pollForProcessSpawn or sleep(5000) settles; sleep never rejects
wait_settles(c, ok) ==
    IF c.pollForSpawn /\ ~ok THEN deploy_throws(c)
    ELSE after_wait(c)

\* a deployment that goes on to the sync whatever the load did
eval_settles_lenient(c, o, m) ==
    [c EXCEPT !.pc = "syncing", !.load = o, !.messageId = m,
              !.calls = Append(@, "Sync-With-Registry")]

\* messageProcessAndGetResult for the Eval message settles
eval_settles(c, o, m) ==
    IF o # "ok" THEN deploy_throws([c EXCEPT !.load = o])
    ELSE [c EXCEPT !.pc = "syncing", !.load = o, !.messageId = m,
                   !.calls = Append(@, "Sync-With-Registry")]

\* messageProcessAndGetResult for the sync message settles
sync_settles(c, o) == [c EXCEPT !.pc = "returned", !.sync = o]

DeployBlogInBrowser(registry_id, wallet, onBoot, pollForSpawn) ==
    /\ client.pc \in {"idle", "threw", "returned"}
    /\ client' = deploy_start(registry_id, wallet, onBoot, pollForSpawn)
    /\ UNCHANGED processVars

SpawnSettles(o) ==
    /\ client.pc = "spawning"
    /\ client' = spawn_settles(client, o)
    /\ UNCHANGED processVars

WaitSettles(ok) ==
    /\ client.pc = "waiting"
    /\ client' = wait_settles(client, ok)
    /\ UNCHANGED processVars

EvalSettles(o, m) ==
    /\ client.pc = "loading"
    /\ client' = eval_settles(client, o, m)
    /\ UNCHANGED processVars

SyncSettles(o) ==
    /\ client.pc = "syncing"
    /\ client' = sync_settles(client, o)
    /\ UNCHANGED processVars

NextDeploy ==
    \/ \E id \in RegistryIds, w \in WalletSources, b \in BOOLEAN, p \in BOOLEAN :
          DeployBlogInBrowser(id, w, b, p)
    \/ \E o \in SpawnOutcomes : SpawnSettles(o)
    \/ \E ok \in BOOLEAN : WaitSettles(ok)
    \/ \E o \in MessageResults, m \in MessageIds : EvalSettles(o, m)
    \/ \E o \in MessageResults : SyncSettles(o)

SpecDeploy == Init /\ [][NextDeploy]_vars

-----------------------------------------------------------------------------
(* Properties of the engine *)

\* C1: once initialize has succeeded, the root role DEFAULT_ADMIN_ROLE is
\* declared and has at least one member, whatever calls are made.
C1_RootAdminSafety ==
    is_initialized => /\ DEFAULT_ADMIN \in roles
                      /\ role_members[DEFAULT_ADMIN] # {}

\* a revoke or renounce of the root role succeeded and left one holder
C1_Witness ==
    /\ is_initialized
    /\ ret.op \in {"revoke_role", "renounce_role"}
    /\ ret.ok
    /\ roles = {DEFAULT_ADMIN}
    /\ Cardinality(role_members[DEFAULT_ADMIN]) = 1

\* caller holds the admin role bound to role, or the root role
HoldsAdminOrRoot(caller, role) ==
    \/ caller \in role_members[role_admins[role]]
    \/ caller \in role_members[DEFAULT_ADMIN]

\* C2 as stated: for every caller, revoking the only holder of the root role,
\* and that holder renouncing it, fail with "Cannot remove last DEFAULT_ADMIN"
\* and leave the root membership unchanged.
C2_Original ==
    \A c \in AccountArgs, a \in Accounts :
        (is_initialized /\ role_members[DEFAULT_ADMIN] = {a}) =>
            /\ revoke_role(Store, c, DEFAULT_ADMIN, a).err = CANNOT_REMOVE_LAST_ADMIN
            /\ revoke_role(Store, c, DEFAULT_ADMIN, a).S.role_members = role_members
            /\ renounce_role(Store, a, DEFAULT_ADMIN).err = CANNOT_REMOVE_LAST_ADMIN
            /\ renounce_role(Store, a, DEFAULT_ADMIN).S.role_members = role_members

\* C2 amended: revoking the only holder of the root role fails for every
\* caller and leaves the memberships unchanged; the error is "Cannot remove
\* last DEFAULT_ADMIN" when the caller can administer the root role and the
\* not-admin error otherwise; the only holder renouncing the root role fails
\* with "Cannot remove last DEFAULT_ADMIN".
C2_LastAdminProtected ==
    \A c \in AccountArgs, a \in Accounts :
        (is_initialized /\ role_members[DEFAULT_ADMIN] = {a}) =>
            /\ LET r == revoke_role(Store, c, DEFAULT_ADMIN, a)
               IN  /\ ~r.ok
                   /\ r.S.role_members = role_members
                   /\ r.err = IF HoldsAdminOrRoot(c, DEFAULT_ADMIN)
                               THEN CANNOT_REMOVE_LAST_ADMIN ELSE NOT_ADMIN
            /\ LET r == renounce_role(Store, a, DEFAULT_ADMIN)
               IN  /\ ~r.ok
                   /\ r.err = CANNOT_REMOVE_LAST_ADMIN
                   /\ r.S.role_members = role_members

\* the only root holder was asked to go and the engine refused
C2_Witness ==
    /\ is_initialized
    /\ ret.op \in {"revoke_role", "renounce_role"}
    /\ ret.err = CANNOT_REMOVE_LAST_ADMIN
    /\ Cardinality(role_members[DEFAULT_ADMIN]) = 1

-----------------------------------------------------------------------------
(* Properties of the registry *)

\* what an index holds for a pair; last_updated = -1 stands for no entry
NoEntry == [roles |-> <<>>, last_updated |-> -1]
EntryWB(G, w, b) ==
    IF w \in DOMAIN G.wallet_blogs /\ b \in DOMAIN G.wallet_blogs[w]
    THEN G.wallet_blogs[w][b] ELSE NoEntry
EntryBW(G, w, b) ==
    IF b \in DOMAIN G.blog_wallets /\ w \in DOMAIN G.blog_wallets[b]
    THEN G.blog_wallets[b][w] ELSE NoEntry

\* every pair other than (w, b) is the same in G and H, in both indices
SameExcept(G, H, w, b) ==
    \A w2 \in Wallets \cup {""}, b2 \in Blogs \cup {""} :
        (w2 # w \/ b2 # b) =>
            /\ EntryWB(H, w2, b2) = EntryWB(G, w2, b2)
            /\ EntryBW(H, w2, b2) = EntryBW(G, w2, b2)

\* the wallet a payload names, "" when it names none
PayloadWallet(data) == IF "wallet" \in DOMAIN data THEN data.wallet ELSE ""

\* C4: a Register-Wallet-Permissions, Remove-Wallet-Permissions or
\* Update-Wallet-Roles message from sender S changes at most the pair
\* (payload wallet, S) in the two indices, whatever the payload holds, a
\* blog_id field included; every pair of another blog is left as it was.
C4_WriteIsolation ==
    \A from \in Blogs :
        /\ \A d \in WritePayloads :
              /\ SameExcept(Registry, register_handler(Registry, from, d).S, PayloadWallet(d), from)
              /\ SameExcept(Registry, update_handler(Registry, from, d).S, PayloadWallet(d), from)
        /\ \A d \in RemovePayloads :
              SameExcept(Registry, remove_handler(Registry, from, d).S, PayloadWallet(d), from)

\* both blogs have written an entry for w1, each its own
C4_Witness ==
    /\ EntryWB(Registry, "w1", "blog1").roles = <<"EDITOR_ROLE">>
    /\ EntryWB(Registry, "w1", "blog2").roles = <<"DEFAULT_ADMIN_ROLE", "EDITOR_ROLE">>
    /\ EntryWB(Registry, "w1", "blog1").last_updated < EntryWB(Registry, "w1", "blog2").last_updated

\* C5: wallet_blogs[w][b] exists exactly when blog_wallets[b][w] exists, and
\* the two carry the same roles and the same last_updated.
C5_Mirror ==
    /\ \A w \in DOMAIN wallet_blogs : \A b \in DOMAIN wallet_blogs[w] :
          /\ b \in DOMAIN blog_wallets
          /\ w \in DOMAIN blog_wallets[b]
          /\ blog_wallets[b][w] = wallet_blogs[w][b]
    /\ \A b \in DOMAIN blog_wallets : \A w \in DOMAIN blog_wallets[b] :
          /\ w \in DOMAIN wallet_blogs
          /\ b \in DOMAIN wallet_blogs[w]
          /\ wallet_blogs[w][b] = blog_wallets[b][w]

\* three of the four pairs are stored, written at different times
C5_Witness ==
    /\ DOMAIN wallet_blogs = {"w1", "w2"}
    /\ DOMAIN wallet_blogs["w1"] = {"blog1", "blog2"}
    /\ DOMAIN wallet_blogs["w2"] = {"blog2"}
    /\ DOMAIN blog_wallets["blog1"] = {"w1"}
    /\ wallet_blogs["w1"]["blog1"].last_updated = 0
    /\ wallet_blogs["w2"]["blog2"].last_updated = 1

\* C6: no pair is stored with an empty roles list, in either index.
C6_NoEmptyRoles ==
    /\ \A w \in DOMAIN wallet_blogs : \A b \in DOMAIN wallet_blogs[w] :
          wallet_blogs[w][b].roles # <<>>
    /\ \A b \in DOMAIN blog_wallets : \A w \in DOMAIN blog_wallets[b] :
          blog_wallets[b][w].roles # <<>>

-----------------------------------------------------------------------------
(* Properties of the sync protocol *)

\* the four role handlers: the engine function and the role they pass on
RoleHandlers == {[role_action |-> "grant_role", role |-> EDITOR],
                 [role_action |-> "revoke_role", role |-> EDITOR],
                 [role_action |-> "grant_role", role |-> DEFAULT_ADMIN],
                 [role_action |-> "revoke_role", role |-> DEFAULT_ADMIN]}

\* the accounts a payload lists, none when the field is missing
PayloadAccounts(data) == IF "accounts" \in DOMAIN data THEN data.accounts ELSE <<>>

\* the roles among DEFAULT_ADMIN_ROLE and EDITOR_ROLE whose member set in S
\* holds the account
Memberships(S, account) ==
    LET member(r) == account \in S.role_members[r]
    IN  SelectSeq(<<DEFAULT_ADMIN, EDITOR>>, member)

\* the message the registry is owed for an account whose memberships are as in S
PushFor(S, account) ==
    IF Memberships(S, account) # <<>>
    THEN [Target |-> RegistryProcess, Action |-> "Register-Wallet-Permissions",
          Data |-> [wallet |-> account, roles |-> Memberships(S, account)]]
    ELSE [Target |-> RegistryProcess, Action |-> "Remove-Wallet-Permissions",
          Data |-> [wallet |-> account]]

\* the engine calls of a role message, one account after the other, with no
\* registry in sight: the store they leave, whether all succeeded, and the
\* pushes owed, one per success, from the store right after that call
RECURSIVE LocalOnly(_, _, _, _, _)
LocalOnly(S, from, role_action, role, accounts) ==
    IF accounts = <<>> THEN [S |-> S, ok |-> TRUE, owed |-> <<>>]
    ELSE LET a == Head(accounts)
             r == IF a = "" THEN Res(S, Fail(INVALID_ACCOUNT))
                  ELSE role_action_call(role_action, S, from, role, a)
             rest == LocalOnly(r.S, from, role_action, role, Tail(accounts))
         IN  [S |-> rest.S, ok |-> r.ok /\ rest.ok,
              owed |-> (IF r.ok THEN <<PushFor(r.S, a)>> ELSE <<>>) \o rest.owed]

\* C7: in every state, whatever role message arrives, the messages the handler
\* sends to the registry are, in order, one per account whose action
\* succeeded: a Register-Wallet-Permissions with the account's full
\* memberships right after that action when there are any, otherwise a
\* Remove-Wallet-Permissions; an account whose action failed gets none.
C7_SyncPushContent ==
    \A from \in Accounts, d \in RolePayloads, h \in RoleHandlers :
        LET r == update_roles(Store, from, d, h.role_action, h.role)
        IN  /\ r.out = LocalOnly(Store, from, h.role_action, h.role, PayloadAccounts(d)).owed
            /\ Len(r.out) = Cardinality({k \in DOMAIN r.results : r.results[k][2]})

\* B was made an editor and then lost the role: a register with the one role,
\* then a remove
C7_Witness ==
    /\ ret.op = "Remove-Editors"
    /\ ret.ok
    /\ Len(outbox) = 2
    /\ outbox[1].Action = "Register-Wallet-Permissions"
    /\ outbox[1].Data = [wallet |-> "B", roles |-> <<EDITOR>>]
    /\ outbox[2].Action = "Remove-Wallet-Permissions"
    /\ outbox[2].Data = [wallet |-> "B"]

Snapshot(msg, t) ==
    IF msg.Action = "Register-Wallet-Permissions"
    THEN [roles |-> msg.Data.roles, last_updated |-> t]
    ELSE NoEntry

\* C9: whichever pushes were lost or handled more than once before, once the
\* registry handles a push of blog b for wallet w, at any time, both indices
\* hold for (w, b) exactly the snapshot of that push, none after a remove;
\* handling the same push once more leaves the roles as they are; and the
\* pair of the push handled last holds that push's roles.
C9_SelfHealing ==
    /\ \A i \in DOMAIN outbox, t \in 0..MaxTime :
          LET m == outbox[i]
              w == m.Data.wallet
              G1 == registry_handle([Registry EXCEPT !.now = t], BlogId, m).S
              G2 == registry_handle(G1, BlogId, m).S
          IN  /\ EntryWB(G1, w, BlogId) = Snapshot(m, t)
              /\ EntryBW(G1, w, BlogId) = Snapshot(m, t)
              /\ EntryWB(G2, w, BlogId).roles = Snapshot(m, t).roles
              /\ EntryBW(G2, w, BlogId).roles = Snapshot(m, t).roles
    /\ delivered # <<>> =>
          LET m == outbox[delivered[Len(delivered)]]
          IN  /\ EntryWB(Registry, m.Data.wallet, BlogId).roles = Snapshot(m, 0).roles
              /\ EntryBW(Registry, m.Data.wallet, BlogId).roles = Snapshot(m, 0).roles

\* the first of two different pushes for one wallet was lost and the second
\* was handled twice
C9_Witness ==
    /\ Len(outbox) = 2
    /\ outbox[1].Data.wallet = outbox[2].Data.wallet
    /\ outbox[1] # outbox[2]
    /\ delivered = <<2, 2>>
    /\ EntryWB(Registry, outbox[2].Data.wallet, BlogId).roles = <<DEFAULT_ADMIN, EDITOR>>

\* positions in delivered of the pushes that concern wallet w
DeliveredFor(w) == {k \in DOMAIN delivered : outbox[delivered[k]].Data.wallet = w}

\* C10: for every wallet, the pair (wallet, blog) holds the payload of the
\* push about it that the registry handled last, and no entry when none was
\* handled; and whichever two pushes about one wallet are handled one after
\* the other, at times t1 <= t2, the pair ends as the payload of the second
\* one handled, stamped t2, also when that one was sent first.
C10_LastWriteWins ==
    /\ \A w \in Accounts :
          LET ks == DeliveredFor(w)
              want == IF ks = {} THEN NoEntry
                      ELSE Snapshot(outbox[delivered[CHOOSE k \in ks : \A k2 \in ks : k2 <= k]], now)
          IN  /\ EntryWB(Registry, w, BlogId) = want
              /\ EntryBW(Registry, w, BlogId) = want
    /\ \A i \in DOMAIN outbox, j \in DOMAIN outbox, t1 \in 0..MaxTime, t2 \in 0..MaxTime :
          (outbox[i].Data.wallet = outbox[j].Data.wallet /\ t1 <= t2) =>
              LET w == outbox[i].Data.wallet
                  G1 == registry_handle([Registry EXCEPT !.now = t1], BlogId, outbox[i]).S
                  G2 == registry_handle([G1 EXCEPT !.now = t2], BlogId, outbox[j]).S
              IN  /\ EntryWB(G2, w, BlogId) = Snapshot(outbox[j], t2)
                  /\ EntryBW(G2, w, BlogId) = Snapshot(outbox[j], t2)

\* two pushes for one wallet, the second with more roles, were handled in the
\* reverse of their send order: the registry ends with the earlier snapshot
C10_Witness ==
    /\ Len(outbox) = 2
    /\ outbox[1].Data.wallet = outbox[2].Data.wallet
    /\ outbox[1].Action = "Register-Wallet-Permissions"
    /\ outbox[2].Action = "Register-Wallet-Permissions"
    /\ outbox[1].Data.roles # outbox[2].Data.roles
    /\ delivered = <<2, 1>>
    /\ EntryWB(Registry, outbox[1].Data.wallet, BlogId).roles = outbox[1].Data.roles

-----------------------------------------------------------------------------
(* Properties of the resync *)

\* the registry lists under the blog exactly the accounts that hold
\* DEFAULT_ADMIN_ROLE or EDITOR_ROLE, each with exactly the roles it holds
RegistryMatchesBlog ==
    \A w \in Accounts :
        IF Memberships(Store, w) = <<>>
        THEN /\ EntryWB(Registry, w, BlogId) = NoEntry
             /\ EntryBW(Registry, w, BlogId) = NoEntry
        ELSE /\ EntryWB(Registry, w, BlogId).roles = Memberships(Store, w)
             /\ EntryBW(Registry, w, BlogId).roles = Memberships(Store, w)

\* C11: over a channel that delivers every message once and in send order,
\* if Sync-With-Registry has been run with success, then from some point on
\* (role changes stop once the blog has sent all it can) the registry's
\* entries under the blog equal the blog's memberships, for good.
C11_EventualConsistency ==
    <>(ret.op = "Sync-With-Registry" /\ ret.ok) => <>[]RegistryMatchesBlog

\* after a resync and role changes that gave B a role and took it away from
\* the owner, all four messages were delivered and the registry agrees
C11_Witness ==
    /\ Len(outbox) = MaxSent
    /\ Len(delivered) = Len(outbox)
    /\ \E k \in DOMAIN outbox : outbox[k].Action = "Remove-Wallet-Permissions"
    /\ role_members[EDITOR] # {Owner}
    /\ RegistryMatchesBlog

\* the messages of the latest Sync-With-Registry, the last ones of the outbox,
\* have all been handled by the registry
SyncProcessed ==
    LET n == Len(sync_roles_loop(Store, ROLES, <<"A", "B">>, 1))
    IN  \A i \in (Len(outbox) - n + 1)..Len(outbox) : \E k \in DOMAIN delivered : delivered[k] = i

\* C12: when the message handled last by the blog is a successful
\* Sync-With-Registry and the registry has handled every message it sent, the
\* registry's entries under the blog equal the blog's memberships, whichever
\* earlier pushes were lost.
C12_ResyncRestores ==
    (ret.op = "Sync-With-Registry" /\ ret.ok /\ SyncProcessed) => RegistryMatchesBlog

-----------------------------------------------------------------------------
(* Properties of the engine's operations *)

\* the two events an initialization by caller for owner appends
InitEvents(caller, owner) ==
    << [type |-> "RoleCreated", role |-> DEFAULT_ADMIN, account |-> Nil,
        oldAdminRole |-> Nil, newAdminRole |-> DEFAULT_ADMIN,
        caller |-> caller, timestamp |-> now],
       [type |-> "RoleGranted", role |-> DEFAULT_ADMIN, account |-> owner,
        oldAdminRole |-> Nil, newAdminRole |-> Nil,
        caller |-> caller, timestamp |-> now] >>

\* C13: before initialization, initialize(caller, owner) with valid accounts
\* succeeds, declares the root role with itself as admin and owner as its
\* only member, and appends a RoleCreated and a RoleGranted event; once
\* initialized, every initialize call, whatever its arguments, fails and
\* leaves the whole store as it was.
C13_InitOnce ==
    /\ ~is_initialized =>
          \A c \in Accounts, o \in Accounts :
              LET r == init(Store, c, o, FALSE)
              IN  /\ r.ok
                  /\ r.S.is_initialized
                  /\ r.S.roles = {DEFAULT_ADMIN}
                  /\ r.S.role_admins = Put(<<>>, DEFAULT_ADMIN, DEFAULT_ADMIN)
                  /\ r.S.role_members = Put(<<>>, DEFAULT_ADMIN, {o})
                  /\ r.S.events = events \o InitEvents(c, o)
    /\ is_initialized =>
          \A c \in AccountArgs, o \in AccountArgs, d \in BOOLEAN :
              LET r == init(Store, c, o, d)
              IN  /\ ~r.ok
                  /\ r.err = ALREADY_INITIALIZED
                  /\ r.S = Store

\* A initialized the engine for A, and a later initialize was turned down
C13_Witness ==
    /\ is_initialized
    /\ ret.op = "init"
    /\ ret.err = ALREADY_INITIALIZED
    /\ role_members[DEFAULT_ADMIN] = {"A"}
    /\ events = InitEvents("A", "A")

\* C14: whenever create_role(caller, R, admin_role) returns success, right
\* afterwards role_exists(R) is true, get_role_admin(R) succeeds with the
\* admin_role supplied, or the root role when it was omitted, and R has no
\* member.
C14_CreatedRoleReadable ==
    \A c \in AccountArgs, R \in RoleArgs, a \in RoleArgs \cup {Nil} :
        LET r == create_role(Store, c, R, a)
        IN  r.ok =>
              /\ role_exists(r.S, R)
              /\ get_role_admin(r.S, R) = Val(IF a = Nil THEN DEFAULT_ADMIN ELSE a, Nil)
              /\ r.S.role_members[R] = {}

\* caller holds the admin role of role, or the root role, role being one
\* the engine's validation accepts
Administers(caller, role) ==
    IF validate_role(Store, role).ok THEN HoldsAdminOrRoot(caller, role) ELSE FALSE

\* C15: create_role(caller, R, admin_role) fails when R is already declared
\* and when the caller holds neither the admin role of admin_role nor the
\* root role; a failure leaves the whole store as it was, so an existing
\* role keeps its members and its admin; a success declares R with no member
\* and admin_role as its admin and touches no other role.
C15_CreateRoleGuards ==
    \A c \in AccountArgs, R \in RoleArgs, a \in RoleArgs \cup {Nil} :
        LET r == create_role(Store, c, R, a)
            adm == IF a = Nil THEN DEFAULT_ADMIN ELSE a
        IN  /\ role_exists(Store, R) => ~r.ok
            /\ ~Administers(c, adm) => ~r.ok
            /\ ~r.ok => r.S = Store
            /\ r.ok =>
                  /\ r.S.roles = roles \cup {R}
                  /\ r.S.role_members = Put(role_members, R, {})
                  /\ r.S.role_admins = Put(role_admins, R, adm)

\* EDITOR_ROLE has a member and a second create_role for it was turned down
C15_Witness ==
    /\ is_initialized
    /\ EDITOR \in roles
    /\ role_members[EDITOR] # {}
    /\ ret.op = "create_role"
    /\ ret.err = ROLE_EXISTS

\* C16: for every declared role R, account A that does not hold R and caller
\* C holding R's admin role or the root role, grant_role(C, R, A) succeeds
\* and makes has_role(A, R) true; a second grant fails with "Account already
\* has role" and changes nothing; revoke_role(C, R, A) then succeeds, puts
\* every membership back to what it was before the grant, and has_role(A, R)
\* is false.
C16_GrantRevokeRoundTrip ==
    \A R \in RoleArgs, A \in Accounts, C \in Accounts :
        (is_initialized /\ role_exists(Store, R) /\ A \notin role_members[R]
            /\ HoldsAdminOrRoot(C, R)) =>
            LET g == grant_role(Store, C, R, A)
                g2 == grant_role(g.S, C, R, A)
                rv == revoke_role(g.S, C, R, A)
            IN  /\ g.ok
                /\ has_role(g.S, A, R) = Val(TRUE, Nil)
                /\ ~g2.ok
                /\ g2.err = ACCOUNT_HAS_ROLE
                /\ g2.S = g.S
                /\ rv.ok
                /\ rv.S.role_members = role_members
                /\ has_role(rv.S, A, R) = Val(FALSE, Nil)

\* C17: for every declared role R and caller, renounce_role(caller, R) asks
\* for no admin right: when the caller holds R it succeeds and removes only
\* the caller from R, unless R is the root role and the caller its last
\* holder, which fails; when the caller does not hold R it fails with
\* "Account does not have role".
C17_RenounceSelfService ==
    \A R \in RoleArgs, c \in Accounts :
        (is_initialized /\ role_exists(Store, R)) =>
            LET r == renounce_role(Store, c, R)
            IN  IF c \notin role_members[R]
                THEN ~r.ok /\ r.err = ACCOUNT_NO_ROLE /\ r.S = Store
                ELSE IF R = DEFAULT_ADMIN /\ role_members[R] = {c}
                THEN ~r.ok /\ r.S = Store
                ELSE /\ r.ok
                     /\ r.S.role_members = [role_members EXCEPT ![R] = @ \ {c}]
                     /\ r.S.role_admins = role_admins

\* C18: set_role_admin(caller, R, N) succeeds only if the caller holds R's
\* current admin role or the root role and N is a declared role; a success
\* makes get_role_admin(R) return N, leaves every membership alone, appends
\* (the log being on) one RoleAdminChanged event with the old and the new
\* admin, and from then on grant_role and revoke_role on R are turned down as
\* not-admin exactly for the callers holding neither N nor the root role; a
\* failure leaves the whole store as it was.
C18_SetRoleAdmin ==
    \A c \in AccountArgs, R \in RoleArgs, N \in RoleArgs :
        LET r == set_role_admin(Store, c, R, N)
        IN  /\ r.ok => Administers(c, R) /\ role_exists(Store, N)
            /\ ~r.ok => r.S = Store
            /\ r.ok =>
                  /\ get_role_admin(r.S, R) = Val(N, Nil)
                  /\ r.S.role_members = role_members
                  /\ r.S.roles = roles
                  /\ r.S.role_admins = [role_admins EXCEPT ![R] = N]
                  /\ r.S.events = IF is_log_enabled
                                  THEN Append(events,
                                         [type |-> "RoleAdminChanged", role |-> R, account |-> Nil,
                                          oldAdminRole |-> role_admins[R], newAdminRole |-> N,
                                          caller |-> c, timestamp |-> now])
                                  ELSE events
                  /\ \A c2 \in Accounts, a \in Accounts :
                        LET denied == c2 \notin role_members[N] /\ c2 \notin role_members[DEFAULT_ADMIN]
                        IN  /\ grant_role(r.S, c2, R, a).err = NOT_ADMIN <=> denied
                            /\ revoke_role(r.S, c2, R, a).err = NOT_ADMIN <=> denied

\* the root role was administered by EDITOR_ROLE, held by B, and has been
\* rebound to itself: B, holding neither the root role nor its new admin, has
\* lost the right to grant it
C18_Witness ==
    /\ is_initialized
    /\ ret.op = "set_role_admin"
    /\ ret.ok
    /\ EDITOR \in roles
    /\ role_admins[DEFAULT_ADMIN] = DEFAULT_ADMIN
    /\ role_members[EDITOR] = {"B"}
    /\ role_members[DEFAULT_ADMIN] = {"A"}
    /\ grant_role(Store, "B", DEFAULT_ADMIN, "B").err = NOT_ADMIN

\* the store after the first k accounts of the list have been given to
\* grant_role one call at a time
RECURSIVE GrantedUpTo(_, _, _, _, _)
GrantedUpTo(S, caller, role, accounts, k) ==
    IF k = 0 THEN S
    ELSE grant_role(GrantedUpTo(S, caller, role, accounts, k - 1), caller, role, accounts[k]).S

\* C19: on an initialized engine bulk_grant_role(caller, R, accounts) goes
\* through the whole list in order and never stops at a failure: it returns
\* one entry per account, entry k carries the outcome grant_role(caller, R,
\* accounts[k]) has on the store left by the k-1 calls before it, every
\* account whose entry succeeded holds R afterwards, and the store it leaves
\* is the one the individual grant_role calls leave when applied in sequence.
C19_BulkIsSequential ==
    is_initialized =>
      \A c \in AccountArgs, R \in RoleArgs, l \in SeqsUpTo(AccountArgs, MaxBulk) :
        LET b == bulk_grant_role(Store, c, R, l)
        IN  /\ b.ok
            /\ Len(b.results) = Len(l)
            /\ \A k \in DOMAIN l :
                  LET g == grant_role(GrantedUpTo(Store, c, R, l, k - 1), c, R, l[k])
                  IN  /\ b.results[k].account = l[k]
                      /\ b.results[k].success = g.ok
                      /\ b.results[k].error = g.err
                      /\ b.results[k].success => l[k] \in b.S.role_members[R]
            /\ b.S = GrantedUpTo(Store, c, R, l, Len(l))
            /\ b.S.role_members =
                  [x \in DOMAIN role_members |->
                      IF x = R
                      THEN role_members[x] \cup {l[k] : k \in {j \in DOMAIN l : b.results[j].success}}
                      ELSE role_members[x]]

\* a batch whose first account was turned down and whose second was granted
C19_Witness ==
    /\ is_initialized
    /\ ret.op = "bulk_grant_role"
    /\ ret.ok
    /\ Len(ret.results) = 2
    /\ ~ret.results[1].success
    /\ ret.results[2].success
    /\ EDITOR \in roles
    /\ ret.results[2].account \in role_members[EDITOR]

\* the errors of check_initialized, validate_account and validate_role, the
\* last two also as create_role and set_role_admin report them for an admin role
ValidationErrors ==
    {INVALID_ACCOUNT, INVALID_ROLE, ROLE_NOT_EXISTS,
     ADMIN_PREFIX \o INVALID_ROLE, ADMIN_PREFIX \o ROLE_NOT_EXISTS}

\* a mutating call that returned a failure and left the store alone
Refused(r) == ~r.ok /\ r.err # Nil /\ r.S = Store

\* a mutating call turned down by validation
Invalid(r) == Refused(r) /\ r.err \in ValidationErrors

\* a read query turned down by validation
InvalidQuery(q) == q.err \in ValidationErrors

\* before init has succeeded every operation returns a failure and the
\* store keeps the empty state it was loaded with
UninitializedFails ==
    ~is_initialized =>
      /\ roles = {} /\ role_members = <<>> /\ role_admins = <<>> /\ events = <<>>
      /\ \A c \in AccountArgs, a \in AccountArgs, R \in RoleArgs \cup {Nil}, N \in RoleArgs \cup {Nil} :
            /\ Refused(create_role(Store, c, R, N))
            /\ Refused(grant_role(Store, c, R, a))
            /\ Refused(revoke_role(Store, c, R, a))
            /\ Refused(renounce_role(Store, c, R))
            /\ Refused(set_role_admin(Store, c, R, N))
            /\ Refused(clear_events(Store))
            /\ \A l \in SeqsUpTo(AccountArgs, MaxBulk) : Refused(bulk_grant_role(Store, c, R, l))
            /\ has_role(Store, a, R).err # Nil /\ ~has_role(Store, a, R).val
            /\ get_role_admin(Store, R).err # Nil
            /\ get_role_members(Store, R).err # Nil
            /\ get_user_roles(Store, a).err # Nil
            /\ get_all_roles(Store).err # Nil

\* C20: before init has succeeded every engine operation returns a failure
\* and the store stays empty; on an initialized engine an operation given the
\* empty string as an account (its caller included), or a role that is not
\* declared, is turned down with a validation error and changes nothing.
\* create_role is asked this of its caller and of its admin role, the role it
\* is to declare being undeclared by design.
C20_ValidationFailures ==
    /\ UninitializedFails
    /\ is_initialized =>
          \A c \in AccountArgs, a \in AccountArgs, R \in RoleArgs, N \in RoleArgs :
            LET bad_role(x) == x \notin roles
            IN  /\ (c = "" \/ bad_role(N)) => Invalid(create_role(Store, c, R, N))
                /\ (c = "" \/ a = "" \/ bad_role(R)) =>
                      /\ Invalid(grant_role(Store, c, R, a))
                      /\ Invalid(revoke_role(Store, c, R, a))
                /\ (c = "" \/ bad_role(R)) => Invalid(renounce_role(Store, c, R))
                /\ (c = "" \/ bad_role(R) \/ bad_role(N)) => Invalid(set_role_admin(Store, c, R, N))
                /\ (c = "" \/ bad_role(R)) =>
                      \A l \in SeqsUpTo(AccountArgs, MaxBulk) : Invalid(bulk_grant_role(Store, c, R, l))
                /\ (a = "" \/ bad_role(R)) => InvalidQuery(has_role(Store, a, R))
                /\ bad_role(R) => InvalidQuery(get_role_admin(Store, R))
                /\ bad_role(R) => InvalidQuery(get_role_members(Store, R))
                /\ a = "" => InvalidQuery(get_user_roles(Store, a))

\* the elements of a list
Listed(l) == {l[i] : i \in DOMAIN l}

\* C21: on an initialized engine get_user_roles(A) succeeds and lists exactly
\* the declared roles R for which has_role(A, R) is true, an account holding
\* DEFAULT_ADMIN_ROLE or EDITOR_ROLE being told so.
C21_UserRolesListed ==
    is_initialized =>
      \A a \in Accounts :
        LET q == get_user_roles(Store, a)
        IN  /\ q.err = Nil
            /\ Listed(q.val) = {R \in roles : has_role(Store, a, R).val}

-----------------------------------------------------------------------------
(* Properties of the registry's operations *)

\* C22: for every wallet, blog and registry state, update with the empty
\* roles list leaves the same two indices and returns the same result as
\* remove, and so does the Update-Wallet-Roles message next to the
\* Remove-Wallet-Permissions message of the same sender.
C22_UpdateEmptyIsRemove ==
    /\ \A w \in Wallets \cup {""}, b \in Blogs \cup {""} :
          update_wallet_roles(Registry, w, b, <<>>) = remove_wallet_permissions(Registry, w, b)
    /\ \A w \in Wallets \cup {""}, from \in Blogs :
          update_handler(Registry, from, [wallet |-> w, roles |-> <<>>])
              = remove_handler(Registry, from, [wallet |-> w])

\* w1 is stored for both blogs, and the update with no roles takes its
\* blog1 pair out of both indices
C22_Witness ==
    /\ EntryWB(Registry, "w1", "blog1").roles = <<"EDITOR_ROLE">>
    /\ EntryWB(Registry, "w1", "blog2") # NoEntry
    /\ LET H == update_wallet_roles(Registry, "w1", "blog1", <<>>).S
       IN  /\ EntryWB(H, "w1", "blog1") = NoEntry
           /\ EntryBW(H, "w1", "blog1") = NoEntry
           /\ EntryWB(H, "w1", "blog2") = EntryWB(Registry, "w1", "blog2")

\* the (wallet, blog) pairs stored in the wallet -> blog index
Pairs(G) == {p \in (DOMAIN G.wallet_blogs) \X (Blogs \cup {""}) : p[2] \in DOMAIN G.wallet_blogs[p[1]]}

\* the roles lists register accepts
ValidRoleLists == {l \in RoleLists : validate_roles(l).ok}

\* what register does apart from the age of the entry: it succeeds, the
\* wallet's listing has one entry for the blog, with the roles just given
\* and the present time, in both indices; every other pair is as before; and
\* writing the roles already stored changes the time only, not the pairs
RegisterOverwrites(w, b, R2) ==
    LET r == register_wallet_permissions(Registry, w, b, R2)
        H == r.S
        of_b == {e \in get_wallet_blogs(H, w).val : e.blog_id = b}
    IN  /\ r.ok
        /\ Cardinality(of_b) = 1
        /\ of_b = {[blog_id |-> b, roles |-> R2, last_updated |-> now]}
        /\ EntryBW(H, w, b) = [roles |-> R2, last_updated |-> now]
        /\ SameExcept(Registry, H, w, b)
        /\ Pairs(H) = Pairs(Registry) \cup {<<w, b>>}
        /\ EntryWB(Registry, w, b).roles = R2 /\ <<w, b>> \in Pairs(Registry) =>
              /\ Pairs(H) = Pairs(Registry)
              /\ Cardinality(Pairs(H)) = Cardinality(Pairs(Registry))
              /\ H = [Registry EXCEPT !.wallet_blogs[w][b].last_updated = now,
                                      !.blog_wallets[b][w].last_updated = now]

\* C23 as stated: register overwrites, and the entry written over an earlier
\* one carries a last_updated strictly newer than the one it replaced.
C23_Original ==
    \A w \in Wallets, b \in Blogs, R2 \in ValidRoleLists :
        /\ RegisterOverwrites(w, b, R2)
        /\ <<w, b>> \in Pairs(Registry) =>
              EntryWB(register_wallet_permissions(Registry, w, b, R2).S, w, b).last_updated
                  > EntryWB(Registry, w, b).last_updated

\* C23: register is a full overwrite: afterwards the wallet's listing holds
\* exactly one entry for the blog, its roles exactly the ones just given and
\* not the union with earlier ones, its last_updated the present reading of
\* the clock, which is never older than the one it replaced and is the same
\* when both writes fall into one second; writing identical roles again
\* changes nothing but last_updated and keeps the number of pairs.
C23_RegisterOverwrites ==
    \A w \in Wallets, b \in Blogs, R2 \in ValidRoleLists :
        /\ RegisterOverwrites(w, b, R2)
        /\ EntryWB(register_wallet_permissions(Registry, w, b, R2).S, w, b).last_updated
              >= EntryWB(Registry, w, b).last_updated

\* an entry written at time 0 with both roles is about to be written over at
\* time 1 with the editor role alone, next to another pair of the wallet
C23_Witness ==
    /\ now = 1
    /\ EntryWB(Registry, "w1", "blog1") = [roles |-> <<"DEFAULT_ADMIN_ROLE", "EDITOR_ROLE">>, last_updated |-> 0]
    /\ EntryWB(Registry, "w1", "blog2") # NoEntry
    /\ LET H == register_wallet_permissions(Registry, "w1", "blog1", <<"EDITOR_ROLE">>).S
       IN  /\ EntryWB(H, "w1", "blog1") = [roles |-> <<"EDITOR_ROLE">>, last_updated |-> 1]
           /\ Cardinality(Pairs(H)) = Cardinality(Pairs(Registry))

\* C24: remove(w, b) with non-empty w and b always succeeds; afterwards the
\* pair is in neither index, every other pair is as it was, the registry is
\* untouched when the pair was not stored, and a second remove changes
\* nothing more.
C24_RemoveFrame ==
    \A w \in Wallets, b \in Blogs :
        LET r == remove_wallet_permissions(Registry, w, b)
            H == r.S
        IN  /\ r.ok /\ r.err = Nil
            /\ EntryWB(H, w, b) = NoEntry
            /\ EntryBW(H, w, b) = NoEntry
            /\ Pairs(H) = Pairs(Registry) \ {<<w, b>>}
            /\ SameExcept(Registry, H, w, b)
            /\ <<w, b>> \notin Pairs(Registry) => H = Registry
            /\ remove_wallet_permissions(H, w, b) = [r EXCEPT !.S = H]
            /\ remove_wallet_permissions(H, w, b).S = H

\* w1 is stored for both blogs and w2 for blog1; removing (w1, blog1) takes
\* that pair out and leaves the other two
C24_Witness ==
    /\ Pairs(Registry) = {<<"w1", "blog1">>, <<"w1", "blog2">>, <<"w2", "blog1">>}
    /\ LET H == remove_wallet_permissions(Registry, "w1", "blog1").S
       IN  /\ Pairs(H) = {<<"w1", "blog2">>, <<"w2", "blog1">>}
           /\ H # Registry

\* the roles the registry stores: the root role and the editor role
AllowedRoles == {"DEFAULT_ADMIN_ROLE", "EDITOR_ROLE"}

\* a write the registry must turn down
BadWrite(w, b, rs) == w = "" \/ b = "" \/ \E i \in DOMAIN rs : rs[i] \notin AllowedRoles

C26_CheckWalletRole ==
    \A w \in Wallets \cup {""}, b \in Blogs \cup {""}, role \in AllowedRoles :
        LET reply == check_wallet_role_handler(Registry, w, b, role)
        IN  /\ reply.success
            /\ reply.data.has_role <=>
                  /\ <<w, b>> \in Pairs(Registry)
                  /\ role \in Listed(wallet_blogs[w][b].roles)
            /\ (w # "" /\ b # "") => reply.data.error = Nil
            /\ (w # "" /\ b # "" /\ <<w, b>> \notin Pairs(Registry)) =>
                  reply = [success |-> TRUE, data |-> [has_role |-> FALSE, error |-> Nil]]

\* w1 is editor and not admin of blog1, and w2 is not stored for blog1
C26_Witness ==
    /\ Pairs(Registry) = {<<"w1", "blog1">>, <<"w2", "blog2">>}
    /\ check_wallet_role_handler(Registry, "w1", "blog1", "EDITOR_ROLE").data.has_role
    /\ ~check_wallet_role_handler(Registry, "w1", "blog1", "DEFAULT_ADMIN_ROLE").data.has_role
    /\ check_wallet_role_handler(Registry, "w2", "blog1", "EDITOR_ROLE")
          = [success |-> TRUE, data |-> [has_role |-> FALSE, error |-> Nil]]

\* C27: stats() reports as wallet_count the number of wallets with a stored
\* pair, as blog_count the number of blogs with a stored pair and as
\* total_permissions the number of stored pairs; a wallet or blog whose last
\* pair was removed is not counted.
C27_Stats ==
    LET stats == get_registry_stats(Registry)
    IN  /\ stats.wallet_count = Cardinality({p[1] : p \in Pairs(Registry)})
        /\ stats.blog_count = Cardinality({p[2] : p \in Pairs(Registry)})
        /\ stats.total_permissions = Cardinality(Pairs(Registry))
        /\ \A w \in Wallets, b \in Blogs :
              LET H == remove_wallet_permissions(Registry, w, b).S
                  after == get_registry_stats(H)
              IN  /\ after.wallet_count = Cardinality({p[1] : p \in Pairs(H)})
                  /\ after.blog_count = Cardinality({p[2] : p \in Pairs(H)})
                  /\ after.total_permissions = Cardinality(Pairs(H))

\* w1 holds its only pair, w2 holds two: removing (w1, blog1) takes w1 out
\* of the wallet count and leaves blog1 in the blog count
C27_Witness ==
    /\ Pairs(Registry) = {<<"w1", "blog1">>, <<"w2", "blog1">>, <<"w2", "blog2">>}
    /\ get_registry_stats(Registry) =
          [version |-> REGISTRY_VERSION, wallet_count |-> 2, blog_count |-> 2, total_permissions |-> 3]
    /\ get_registry_stats(remove_wallet_permissions(Registry, "w1", "blog1").S) =
          [version |-> REGISTRY_VERSION, wallet_count |-> 1, blog_count |-> 2, total_permissions |-> 2]

-----------------------------------------------------------------------------
(* Properties of the event log *)

\* r left the log of S longer by n events, the earlier ones untouched
Appended(S, r, n) ==
    /\ Len(r.S.events) = Len(S.events) + n
    /\ SubSeq(r.S.events, 1, Len(S.events)) = S.events

\* a mutating call on S appends one event when it succeeds and none when it fails
LogsOne(S, r) == IF r.ok THEN Appended(S, r, 1) ELSE r.S.events = S.events

\* a log claiming that B was made root by itself
ForgedLog ==
    <<[type |-> "RoleGranted", role |-> DEFAULT_ADMIN, account |-> "B",
       oldAdminRole |-> Nil, newAdminRole |-> Nil, caller |-> "B", timestamp |-> 0]>>

\* the store with its log taken out of sight
Unlogged(S) == [S EXCEPT !.events = <<>>]

\* r and q are the same answer and leave the same roles, admins and memberships
SameOutcome(r, q) == r.ok = q.ok /\ r.err = q.err /\ Unlogged(r.S) = Unlogged(q.S)

\* C28: with the log on, every successful create_role, grant_role,
\* revoke_role, renounce_role and set_role_admin appends exactly one event
\* and a successful init two; a failed operation appends none; clear_events
\* empties the log and changes nothing else; and every answer, that of the
\* authorization checks included, is the same whatever the log holds.
C28_EventLog ==
    is_log_enabled =>
      LET T == [Store EXCEPT !.events = ForgedLog]
      IN  /\ \A c \in AccountArgs, a \in AccountArgs :
                LET r == init(Store, c, a, FALSE)
                IN  IF r.ok THEN Appended(Store, r, 2) ELSE r.S.events = events
          /\ is_initialized =>
                /\ clear_events(Store).ok
                /\ clear_events(Store).S = [Store EXCEPT !.events = <<>>]
          /\ \A c \in AccountArgs, R \in RoleArgs, N \in RoleArgs \cup {Nil} :
                /\ LogsOne(Store, create_role(Store, c, R, N))
                /\ LogsOne(Store, set_role_admin(Store, c, R, N))
                /\ SameOutcome(create_role(T, c, R, N), create_role(Store, c, R, N))
                /\ SameOutcome(set_role_admin(T, c, R, N), set_role_admin(Store, c, R, N))
          /\ \A c \in AccountArgs, R \in RoleArgs, a \in AccountArgs :
                /\ LogsOne(Store, grant_role(Store, c, R, a))
                /\ LogsOne(Store, revoke_role(Store, c, R, a))
                /\ SameOutcome(grant_role(T, c, R, a), grant_role(Store, c, R, a))
                /\ SameOutcome(revoke_role(T, c, R, a), revoke_role(Store, c, R, a))
          /\ \A c \in AccountArgs, R \in RoleArgs :
                /\ LogsOne(Store, renounce_role(Store, c, R))
                /\ SameOutcome(renounce_role(T, c, R), renounce_role(Store, c, R))
                /\ has_role(T, c, R) = has_role(Store, c, R)
                /\ can_administer_role(T, c, R) = can_administer_role(Store, c, R)
                /\ only_role(T, c, R) = only_role(Store, c, R)

\* the log was cleared after the editor role had been declared, and the
\* grant of that role to B has since put one event into it
C28_Witness ==
    /\ is_log_enabled
    /\ ret.op = "grant_role"
    /\ ret.ok
    /\ EDITOR \in roles
    /\ role_members[EDITOR] = {"B"}
    /\ Len(events) = 1
    /\ events[1].type = "RoleGranted"
    /\ events[1].account = "B"

-----------------------------------------------------------------------------
(* Properties of the blog contract's handlers *)

\* C29: in every state of the blog process Get-Admins replies with exactly
\* the members of DEFAULT_ADMIN_ROLE and Get-Editors with exactly the
\* members of EDITOR_ROLE.
C29_GetAdminsGetEditors ==
    /\ get_editors_handler(Store) = [success |-> TRUE, data |-> role_members[EDITOR]]
    /\ get_admins_handler(Store) = [success |-> TRUE, data |-> role_members[DEFAULT_ADMIN]]

\* C30: an Add-Editors, Remove-Editors, Add-Admins or Remove-Admins message
\* whose sender does not hold DEFAULT_ADMIN_ROLE when it is handled is
\* rejected, changes no membership and sends nothing to the registry; a
\* Sync-With-Registry message from such a sender is rejected and sends nothing.
C30_AdminOnly ==
    \A from \in AccountArgs :
        from \notin role_members[DEFAULT_ADMIN] =>
            /\ \A d \in RolePayloads, h \in RoleHandlers :
                  LET r == update_roles(Store, from, d, h.role_action, h.role)
                  IN  /\ ~r.ok
                      /\ r.err # Nil
                      /\ r.S = Store
                      /\ r.out = <<>>
            /\ \A ro \in RoleOrders, mo \in MemberOrders :
                  LET r == sync_with_registry(Store, from, ro, mo)
                  IN  ~r.ok /\ r.err # Nil /\ r.out = <<>>

\* B, made an editor by the owner, has asked to be made an admin and has
\* been turned down: nothing but the push of its editor role was sent
C30_Witness ==
    /\ ret.op = "Add-Admins"
    /\ ~ret.ok
    /\ ret.err = MISSING_ROLE
    /\ role_members[DEFAULT_ADMIN] = {"A"}
    /\ role_members[EDITOR] = {"A", "B"}
    /\ Len(outbox) = 1
    /\ outbox[1].Data.wallet = "B"

-----------------------------------------------------------------------------
(* Properties of the blog contract's posts *)

PostActions == {"Create-Post", "Update-Post", "Delete-Post"}

\* C31: a Create-Post, Update-Post or Delete-Post message changes the post
\* storage only if its sender holds EDITOR_ROLE in the blog's store when the
\* message is handled; a post message from an account that does not hold
\* the role then (one whose role was revoked included) is answered with a
\* failure and leaves the post storage as it was.
C31_PostsGatedByEditorRole ==
    [][ /\ postVars' # postVars =>
              /\ ret'.op \in PostActions
              /\ ret'.from \in role_members[EDITOR]
        /\ (ret'.op \in PostActions /\ ret'.from \notin role_members[EDITOR]) =>
              /\ ~ret'.ok
              /\ postVars' = postVars ]_vars

\* B was an editor, its role was revoked while the blog holds a post, and
\* the post message it sent afterwards was refused
C31_Witness ==
    /\ ret.op \in PostActions
    /\ ret.from = "B"
    /\ ~ret.ok
    /\ "B" \notin role_members[EDITOR]
    /\ Posts # <<>>
    /\ \E i \in DOMAIN events : /\ events[i].type = "RoleRevoked"
                                /\ events[i].role = EDITOR
                                /\ events[i].account = "B"

-----------------------------------------------------------------------------
(* Properties of retryWithDelay *)

Retrying == client.pc \in {"calling", "waiting", "resolved", "rejected"}

AllFailed(outcomes) == \A i \in DOMAIN outcomes : ~outcomes[i].ok

\* the calls of fn made so far, the one in flight included
Calls == Len(client.outcomes) + client.running

RetryBounded ==
    (Retrying /\ client.maxAttempts >= 1) =>
        /\ Calls <= client.maxAttempts
        /\ client.running \in {0, 1}
        /\ \A i \in DOMAIN client.outcomes :
              client.outcomes[i].ok => i = Calls
        /\ client.pc = "resolved" =>
              /\ client.outcomes # <<>>
              /\ client.outcomes[Len(client.outcomes)].ok
              /\ client.settled = client.outcomes[Len(client.outcomes)].val
        /\ client.pc = "rejected" <=>
              /\ Len(client.outcomes) = client.maxAttempts
              /\ AllFailed(client.outcomes)
        /\ client.pc = "rejected" =>
              client.settled = client.outcomes[Len(client.outcomes)].val

\* C33: retryWithDelay(fn, maxAttempts) with maxAttempts >= 1 settles when
\* every call of fn settles; it calls fn at most maxAttempts times, one call
\* at a time, makes no call after the first success and resolves with that
\* call's value, and rejects, with the error of the last call, exactly when
\* all maxAttempts calls failed.
C33_RetryTerminates ==
    /\ []RetryBounded
    /\ (client.pc \in {"calling", "waiting"} /\ client.maxAttempts >= 1)
           ~> client.pc \in {"resolved", "rejected"}

\* fn failed twice with different errors and maxAttempts = 2: rejected with
\* the second error, no third call
C33_Witness ==
    /\ client.pc = "rejected"
    /\ client.maxAttempts = 2
    /\ Len(client.outcomes) = 2
    /\ client.outcomes[1].val = "e1"
    /\ client.settled = "e2"

-----------------------------------------------------------------------------
(* Properties of the SDK's write operations *)

\* the text mentions message id m
Mentions(text, m) == text.kind = "string" /\ \E i \in DOMAIN text.v : text.v[i] = m

\* the reply the process sent, when the fetched result carries one
HasReply(o) == o.kind = "result" /\ Len(o.Messages) > 0

\* C32: each write method sends its message first and fetches the result
\* second; without a message id the response has success = false; with a
\* message id and a failed fetch it has success = true and a text naming the
\* message id; with a fetched result the response is the reply of the
\* process, decoded; the method returns a response in every case.
C32_WriteOutcomes ==
    /\ client.pc \in {"sending", "fetching", "returned"} =>
          client.calls \in {<<>>, <<"message">>, <<"message", "result">>}
    /\ client.pc = "returned" =>
          /\ client.sent.kind \in {"none", "throws"} => ~client.response.success
          /\ (client.sent.kind = "id" /\ client.fetched.kind = "throws") =>
                /\ client.response.success
                /\ Mentions(client.response.data, client.sent.id)
          /\ HasReply(client.fetched) =>
                client.response = client.fetched.Messages[1].Data


-----------------------------------------------------------------------------
(* Properties of deployBlogInBrowser *)

Deploying == client.pc \in {"spawning", "waiting", "loading", "syncing", "threw", "returned"}

Called(op) == \E i \in DOMAIN client.calls : client.calls[i] = op

\* C34: nothing is spawned when the registry process id is not configured;
\* the Sync-With-Registry message is sent only after the process was
\* spawned and the contract loaded (On-Boot data, or an Eval that came back
\* clean); a failed load fails the deployment with no sync sent; a failed
\* sync does not fail the deployment, which returns the process id.
C34_DeploymentOrder ==
    Deploying =>
        /\ client.registry_id \in {"", REGISTRY_PLACEHOLDER} =>
              client.calls = <<>> /\ client.pc = "threw"
        /\ Called("Sync-With-Registry") =>
              /\ client.processId # Nil
              /\ \/ client.calls = <<"spawn On-Boot", "Sync-With-Registry">>
                 \/ client.calls = <<"spawn", "Eval", "Sync-With-Registry">> /\ client.load = "ok"
        /\ client.load \in {"send_failed", "result_failed"} =>
              client.pc = "threw" /\ ~Called("Sync-With-Registry")
        /\ client.sync # "none" =>
              client.pc = "returned" /\ client.processId \in {BlogId, "blog2"}

\* the load by Eval succeeded, the sync failed, and the deployment returned
C34_Witness ==
    /\ client.pc = "returned"
    /\ client.calls = <<"spawn", "Eval", "Sync-With-Registry">>
    /\ client.sync = "result_failed"
    /\ client.processId = BlogId

-----------------------------------------------------------------------------
(* Failure atomicity and the admin bindings of the engine *)

\* C35: a call of create_role, grant_role, revoke_role, renounce_role or
\* set_role_admin that returns failure leaves the declared roles, the admin
\* bindings, the memberships and the event log as they were.
C35_FailureAtomicity ==
    /\ \A c \in AccountArgs, r \in RoleArgs \cup {Nil}, a \in RoleArgs \cup {Nil} :
          ~create_role(Store, c, r, a).ok => create_role(Store, c, r, a).S = Store
    /\ \A c \in AccountArgs, r \in RoleArgs, a \in AccountArgs :
          /\ ~grant_role(Store, c, r, a).ok => grant_role(Store, c, r, a).S = Store
          /\ ~revoke_role(Store, c, r, a).ok => revoke_role(Store, c, r, a).S = Store
    /\ \A c \in AccountArgs, r \in RoleArgs :
          ~renounce_role(Store, c, r).ok => renounce_role(Store, c, r).S = Store
    /\ \A c \in AccountArgs, r \in RoleArgs, a \in RoleArgs :
          ~set_role_admin(Store, c, r, a).ok => set_role_admin(Store, c, r, a).S = Store

\* a revoke of the last root holder was refused in a store that has an
\* editor role with a member, and the root holder is still there
C35_Witness ==
    /\ is_initialized
    /\ ret.op = "revoke_role"
    /\ ret.err = CANNOT_REMOVE_LAST_ADMIN
    /\ Cardinality(role_members[DEFAULT_ADMIN]) = 1
    /\ EDITOR \in roles
    /\ role_members[EDITOR] # {}

\* every declared role is bound to one admin role, which is declared
AdminsDeclared ==
    is_initialized =>
        /\ DOMAIN role_admins = roles
        /\ \A r \in roles : role_admins[r] \in roles
        /\ \A r \in RoleArgs :
              get_role_admin(Store, r).err = Nil => get_role_admin(Store, r).val \in roles

\* C36: after initialization every declared role has exactly one admin
\* role and that admin role is itself declared; a declared role is never
\* undeclared, so get_role_admin never returns an undeclared role.
C36_AdminBindingClosure ==
    /\ []AdminsDeclared
    /\ [][roles \subseteq roles']_vars

\* the editor role was rebound to administer itself
C36_Witness ==
    /\ is_initialized
    /\ ret.op = "set_role_admin"
    /\ ret.ok
    /\ EDITOR \in roles
    /\ role_admins[EDITOR] = EDITOR

\* C37: a grant_role or revoke_role on the root role succeeds only if the
\* caller holds the root role.
C37_RootControlledByRoot ==
    is_initialized =>
        \A c \in AccountArgs, a \in AccountArgs :
            /\ grant_role(Store, c, DEFAULT_ADMIN, a).ok => c \in role_members[DEFAULT_ADMIN]
            /\ revoke_role(Store, c, DEFAULT_ADMIN, a).ok => c \in role_members[DEFAULT_ADMIN]

-----------------------------------------------------------------------------
(* Properties of Sync-With-Registry *)

\* the accounts that hold at least one role of the blog
RoleHolders == {a \in Accounts : get_wallet_roles_for_registry(Store, a) # <<>>}

\* C39: a Sync-With-Registry from an admin (one has just been handled, and
\* the store is as it was then) sends exactly one
\* Register-Wallet-Permissions message per distinct account that holds at
\* least one role, each with that account's full current snapshot, and the
\* synced_wallets of its reply is the number of distinct accounts synced.
C39_OneRegisterPerAccount ==
    \A from \in Accounts, ro \in RoleOrders, mo \in MemberOrders :
        LET r == sync_with_registry(Store, from, ro, mo)
        IN  (ret.op = "Sync-With-Registry" /\ ret.ok /\ r.ok) =>
              /\ \A i \in DOMAIN r.out :
                    /\ r.out[i].Action = "Register-Wallet-Permissions"
                    /\ r.out[i].Data.wallet \in RoleHolders
                    /\ r.out[i].Data.roles =
                          get_wallet_roles_for_registry(Store, r.out[i].Data.wallet)
              /\ \A a \in RoleHolders :
                    Cardinality({i \in DOMAIN r.out : r.out[i].Data.wallet = a}) = 1
              /\ sync_reply(Store, ro, mo).synced_wallets = Cardinality(RoleHolders)

-----------------------------------------------------------------------------
(* The registry's entries for an honest blog *)

\* the register messages the blog has sent so far for wallet w
RegistersFor(w) ==
    {i \in DOMAIN outbox : /\ outbox[i].Action = "Register-Wallet-Permissions"
                           /\ outbox[i].Data.wallet = w}

\* every entry of the blog in the registry holds the roles of a register
\* message the blog sent, and no empty list
EntriesWereSent ==
    \A w \in Accounts :
        LET entry == EntryWB(Registry, w, BlogId)
        IN  /\ EntryBW(Registry, w, BlogId).roles = entry.roles
            /\ entry # NoEntry =>
                  /\ entry.roles # <<>>
                  /\ \E i \in RegistersFor(w) : outbox[i].Data.roles = entry.roles

\* every register message is sent with what its wallet holds in the store
\* at that moment, which is not nothing, and sent messages stay as they are
SentAreSnapshots ==
    /\ Len(outbox') >= Len(outbox)
    /\ \A i \in DOMAIN outbox : outbox'[i] = outbox[i]
    /\ \A i \in (DOMAIN outbox') \ (DOMAIN outbox) :
          outbox'[i].Action = "Register-Wallet-Permissions" =>
              /\ \E w \in Accounts : /\ outbox'[i].Data.wallet = w
                                     /\ outbox'[i].Data.roles = Memberships(Store, w)'
              /\ outbox'[i].Data.roles # <<>>

\* C38: whichever pushes are lost, handled twice or handled out of order,
\* every entry the registry holds for (w, b), b an honest blog, has the
\* roles that w held in b's store at an earlier moment, at least one; the
\* registry never lists for (w, b) a role that b never granted to w.
C38_NoPhantomEntries ==
    /\ []EntriesWereSent
    /\ [][SentAreSnapshots]_vars

\* the remove for B was handled before the register it followed: the
\* registry lists B as an editor, which B was and no longer is
C38_Witness ==
    /\ Len(outbox) = 2
    /\ outbox[1].Action = "Register-Wallet-Permissions"
    /\ outbox[1].Data.wallet = "B"
    /\ outbox[2].Action = "Remove-Wallet-Permissions"
    /\ delivered = <<2, 1>>
    /\ "B" \notin role_members[EDITOR]
    /\ EntryWB(Registry, "B", BlogId).roles = <<EDITOR>>

=============================================================================
